---- MODULE Spec2Model ----
(***************************************************************************)
(* Softball simulation engine: the game state machine (Game.simulate with  *)
(* the Game-mutating fielding engine) and the runner-aware fielding        *)
(* resolution (simulateFieldingWithRunners).                               *)
(*                                                                         *)
(* Random draws (Math.random() < p) are nondeterministic choices; a draw   *)
(* has both outcomes exactly when 0 < p < 1, so every probability is       *)
(* computed, in scaled integer arithmetic, wherever it can reach 0 or 1.   *)
(***************************************************************************)
EXTENDS Integers, Sequences, FiniteSets, TLC

\* ------------------------------------------------------------------------
\* Bounds of the model
\* ------------------------------------------------------------------------
\* Highest score a team may reach (scoring plays are disabled beyond it).
MaxScore == 2
\* Last inning that may be started (extra innings are cut off after it).
MaxInning == 10
\* Batters per team, over the whole game, beyond three per inning.
MaxExtraBatters == 2

\* ------------------------------------------------------------------------
\* Program constants
\* ------------------------------------------------------------------------
LineupSize == 9
RegulationInnings == 9
MAX_THROWS == 3

NoPlayer == -1
Teams == {"home", "away"}

Max(a, b) == IF a >= b THEN a ELSE b
Min(a, b) == IF a <= b THEN a ELSE b
Abs(a) == IF a >= 0 THEN a ELSE -a
clamp(x, lo, hi) == Max(lo, Min(hi, x))

\* ------------------------------------------------------------------------
\* Teams and players.  A player is a lineup slot 0..8 of a team; the slot
\* fixes the active fielding position and the stats.
\* ------------------------------------------------------------------------
Positions == <<"Pitcher", "Catcher", "First Base", "Second Base", "Third Base",
               "Shortstop", "Left Field", "Center Field", "Right Field">>

\* The home team is the team of the repository's full-game test: every stat 1.
HomeRunning == <<1, 1, 1, 1, 1, 1, 1, 1, 1>>
HomeFielding == <<1, 1, 1, 1, 1, 1, 1, 1, 1>>
\* The away team mixes slow and fast runners, weak and strong fielders.
AwayRunning == <<0, 10, 5, 0, 10, 5, 0, 10, 5>>
AwayFielding == <<5, 0, 10, 5, 10, 10, 0, 5, 10>>

Player(team, slot) ==
    [team |-> team, slot |-> slot,
     activePosition |-> Positions[slot + 1],
     running |-> IF team = "home" THEN HomeRunning[slot + 1] ELSE AwayRunning[slot + 1],
     fielding |-> IF team = "home" THEN HomeFielding[slot + 1] ELSE AwayFielding[slot + 1]]

isOutfielder(p) == p.activePosition \in {"Left Field", "Center Field", "Right Field"}

isInfielder(p) ==
    p.activePosition \in {"First Base", "Second Base", "Third Base", "Shortstop",
                          "Pitcher", "Catcher"}

getFielderByPosition(team, position) ==
    Player(team, CHOOSE s \in 0..(LineupSize - 1) : Positions[s + 1] = position)

\* ------------------------------------------------------------------------
\* Batted balls.  velo (mph), launch and attack (degrees) are the fields of
\* BattedBall; xAirFt and vHorizFtps are the projectile kinematics that
\* estimateDropZone computes from velo and launch (air distance in feet and
\* horizontal speed in ft/s, rounded).
\* ------------------------------------------------------------------------
Ball(velo, launch, attack, homer, xAirFt, vHorizFtps) ==
    [velo |-> velo, launch |-> launch, attack |-> attack, homer |-> homer,
     foul |-> FALSE, xAirFt |-> xAirFt, vHorizFtps |-> vHorizFtps]

GrounderToShort == Ball(50, 0, -20, FALSE, 31, 73)
Comebacker == Ball(30, -10, 0, FALSE, 11, 43)
HardGrounder == Ball(77, 9, 0, FALSE, 130, 112)
LinerToRight == Ball(70, 15, 30, FALSE, 162, 99)
FlyToCenter == Ball(70, 35, 0, FALSE, 289, 84)
HomerToLeft == Ball(70, 27, -20, TRUE, 251, 92)
InfieldPop == Ball(40, 70, 20, FALSE, 65, 20)

FairBalls == {GrounderToShort, Comebacker, HardGrounder, LinerToRight,
              FlyToCenter, HomerToLeft, InfieldPop}

classifyBall(ball) ==
    IF ball.launch < 10 THEN "GROUND"
    ELSE IF ball.launch < 25 THEN "LINE"
    ELSE IF ball.launch < 60 THEN "FLY"
    ELSE "POP"

\* Sector routing shared by the in-air and fall-through branches.
SectorRoute(ball, rangeFt) ==
    LET nearEdge == Abs(rangeFt - 95) <= 10
        infieldUpper == IF nearEdge
                        THEN (IF ball.launch < 15 THEN 95 + 10 ELSE 95 - 10)
                        ELSE 95
        isLeft == ball.attack < -15
        isRight == ball.attack > 15
    IN  IF rangeFt < infieldUpper
        THEN IF isLeft THEN (IF ball.attack <= -30 THEN "Third Base" ELSE "Shortstop")
             ELSE IF isRight THEN (IF ball.attack >= 30 THEN "First Base" ELSE "Second Base")
             ELSE (IF ball.attack < 0 THEN "Shortstop" ELSE "Second Base")
        ELSE IF isLeft THEN "Left Field"
             ELSE IF isRight THEN "Right Field"
             ELSE "Center Field"

\* mutant: a foul ball is routed like a fair one
DropZone_IgnoresFoul(ball, coneDeg) ==
    LET rangeFt == IF ball.launch < 10 THEN Min(ball.xAirFt, 120) ELSE ball.xAirFt
        straightUp == ball.launch >= 87 /\ ball.launch <= 93
        timeOk == (43 - ball.xAirFt) * 1000 >= 245 * ball.vHorizFtps
    IN  IF ball.launch < 10 /\ ball.xAirFt < 43
        THEN IF Abs(ball.attack) <= coneDeg /\ ball.launch <= 8
                /\ ball.xAirFt <= 20 /\ timeOk
             THEN "Pitcher"
             ELSE IF ball.attack <= -30 THEN "Third Base"
             ELSE IF ball.attack >= 30 THEN "First Base"
             ELSE IF ball.attack < -10 THEN "Shortstop"
             ELSE IF ball.attack > 10 THEN "Second Base"
             ELSE IF ball.attack < 0 THEN "Shortstop"
             ELSE "Second Base"
        ELSE IF rangeFt < 35 /\ straightUp THEN "Catcher"
        ELSE SectorRoute(ball, rangeFt)

\* estimateDropZone with the pitcher cone as a parameter (3 degrees in the
\* Game-mutating engine, 5 degrees in fielding.ts).
DropZone(ball, coneDeg) ==
    LET rangeFt == IF ball.launch < 10 THEN Min(ball.xAirFt, 120) ELSE ball.xAirFt
        straightUp == ball.launch >= 87 /\ ball.launch <= 93
        \* timeToPlane >= 0.35 with timeToPlane = (43 - xAir) / (0.7 * vHoriz)
        timeOk == (43 - ball.xAirFt) * 1000 >= 245 * ball.vHorizFtps
    IN  IF ball.foul
        THEN IF ball.launch >= 35 /\ rangeFt <= 90
             THEN IF rangeFt <= 45 /\ straightUp THEN "Catcher"
                  ELSE IF ball.attack >= 30 THEN "First Base"
                  ELSE IF ball.attack <= -30 THEN "Third Base"
                  ELSE "Bench"
             ELSE "Bench"
        ELSE IF ball.launch < 10 /\ ball.xAirFt < 43
        THEN IF Abs(ball.attack) <= coneDeg /\ ball.launch <= 8
                /\ ball.xAirFt <= 20 /\ timeOk
             THEN "Pitcher"
             ELSE IF ball.attack <= -30 THEN "Third Base"
             ELSE IF ball.attack >= 30 THEN "First Base"
             ELSE IF ball.attack < -10 THEN "Shortstop"
             ELSE IF ball.attack > 10 THEN "Second Base"
             ELSE IF ball.attack < 0 THEN "Shortstop"
             ELSE "Second Base"
        ELSE IF rangeFt < 35 /\ straightUp THEN "Catcher"
        ELSE SectorRoute(ball, rangeFt)

estimateDropZone(ball) == DropZone(ball, 3)

\* ------------------------------------------------------------------------
\* The Game-mutating fielding engine.
\* ------------------------------------------------------------------------
EmptyBases == [first |-> NoPlayer, second |-> NoPlayer, third |-> NoPlayer]

\* Catch probability in units of 1/10000.
calculateCatchProbability(ball, fielder, ballType) ==
    IF ball.homer
    THEN Min(25 * fielder.fielding + 25 * fielder.running, 500)
    ELSE LET depthBonus == IF isOutfielder(fielder) /\ ballType \in {"FLY", "LINE"}
                              /\ (ball.xAirFt < 250 \/ ball.xAirFt > 350)
                           THEN -1500 ELSE 0
             inGap == ball.attack >= -10 /\ ball.attack <= 10
             p0 == 1000 + depthBonus
             p1 == IF isOutfielder(fielder) /\ inGap THEN (p0 * 7) \div 10 ELSE p0
             skill == IF ballType = "LINE" THEN 50 * fielder.fielding
                      ELSE IF ballType = "POP"
                      THEN 300 * fielder.fielding + 200 * fielder.running
                      ELSE IF ballType = "FLY"
                      THEN 150 * fielder.fielding + 150 * fielder.running
                      ELSE 0
         IN  Min(p1 + skill, 9500)

\* Outcomes of the draw Math.random() < p, p in units of 1/scale.
Draw(p, scale) == {b \in BOOLEAN : (b /\ p > 0) \/ (~b /\ p < scale)}

\* Fielding success rate in units of 1/100.
getFieldingSuccessRate(fielder) == Min(10 + 3 * fielder.fielding, 90)

\* Times are compared over the common denominator 100 * RD * FD, where
\* runnerSpeed = RD / 2 ft/s and throwSpeed = FD / 2 ft/s.
RunDen(runner) == 54 + 3 * runner.running
ThrowDen(fielder) == 140 + 3 * fielder.fielding

attemptTagUpAdvance(runner, fielder) ==
    LET RD == RunDen(runner)
        FD == ThrowDen(fielder)
        throwDistance == IF isInfielder(fielder) THEN 90 ELSE 150
        runnerTime == 60 * 200 * FD
        throwTime == throwDistance * 200 * RD
        reactionTime == (10 - 3 * fielder.fielding) * RD * FD
        timeMargin == runnerTime - (throwTime + reactionTime)
        aggressionFactor == 10 * runner.running
        \* successProb = 0.1 + timeMargin * 0.05 + running * 0.02, scaled by
        \* 2000 * RD * FD
        successProb == 200 * RD * FD + timeMargin + 40 * runner.running * RD * FD
    IN  IF timeMargin > (100 + aggressionFactor) * RD * FD THEN {"SAFE"}
        ELSE IF timeMargin < -50 * RD * FD THEN {"STAYED"}
        ELSE {IF b THEN "SAFE" ELSE "OUT" : b \in Draw(successProb, 2000 * RD * FD)}

TagUpResult(runners, o3, o2, o1) ==
    [runsScored |-> IF o3 = "SAFE" THEN 1 ELSE 0,
     outsRecorded |-> Cardinality({i \in 1..3 : <<o3, o2, o1>>[i] = "OUT"}),
     finalBases |->
        [third |-> IF o2 = "SAFE" THEN runners.second
                   ELSE IF o3 = "STAYED" THEN runners.third ELSE NoPlayer,
         second |-> IF o1 = "SAFE" THEN runners.first
                    ELSE IF o2 = "STAYED" THEN runners.second ELSE NoPlayer,
         first |-> IF o1 = "STAYED" THEN runners.first ELSE NoPlayer]]

\* runners: bases holding lineup slots of the batting team.
handleTagUp(runners, catchingFielder, battingTeam) ==
    LET try(slot) == attemptTagUpAdvance(Player(battingTeam, slot), catchingFielder)
        O3 == IF runners.third # NoPlayer THEN try(runners.third) ELSE {"NONE"}
        O2 == IF runners.second # NoPlayer THEN try(runners.second) ELSE {"NONE"}
        \* the runner on first attempts only on a 30% draw
        O1 == IF runners.first # NoPlayer
              THEN try(runners.first) \cup {"STAYED"} ELSE {"NONE"}
    IN  {TagUpResult(runners, o3, o2, o1) : o3 \in O3, o2 \in O2, o1 \in O1}

getRunsFromHomer(runners) ==
    Cardinality({b \in {"first", "second", "third"} : runners[b] # NoPlayer}) + 1


\* ------------------------------------------------------------------------
\* Runner advancement (ball not caught).
\* ------------------------------------------------------------------------
Runner(slot, base, target, forced) ==
    [player |-> slot, startBase |-> base, currentBase |-> base,
     targetBase |-> target, isForced |-> forced]

\* mutant: the runner on third is forced whenever second is occupied
initializeRunners_ThirdForcedBySecond(bases, batter) ==
    <<Runner(batter, "home", "first", TRUE)>>
    \o (IF bases.first # NoPlayer
        THEN <<Runner(bases.first, "first", "second", TRUE)>> ELSE <<>>)
    \o (IF bases.second # NoPlayer
        THEN <<Runner(bases.second, "second", "third", bases.first # NoPlayer)>>
        ELSE <<>>)
    \o (IF bases.third # NoPlayer
        THEN <<Runner(bases.third, "third", "home", bases.second # NoPlayer)>>
        ELSE <<>>)

initializeRunners(bases, batter) ==
    <<Runner(batter, "home", "first", TRUE)>>
    \o (IF bases.first # NoPlayer
        THEN <<Runner(bases.first, "first", "second", TRUE)>> ELSE <<>>)
    \o (IF bases.second # NoPlayer
        THEN <<Runner(bases.second, "second", "third", bases.first # NoPlayer)>>
        ELSE <<>>)
    \o (IF bases.third # NoPlayer
        THEN <<Runner(bases.third, "third", "home",
                      bases.second # NoPlayer /\ bases.first # NoPlayer)>>
        ELSE <<>>)

\* Fielding time in units of 1/100 s.
calculateFieldingTime(fielder, ballType) ==
    LET baseTime == IF ballType = "GROUND" THEN 120
                    ELSE IF ballType = "LINE" THEN 150
                    ELSE IF ballType = "FLY" THEN 200
                    ELSE IF ballType = "POP" THEN 180
                    ELSE 100
    IN  Max(baseTime - 5 * fielder.fielding, 50)

priorities(base) ==
    CASE base = "home" -> 4
      [] base = "third" -> 3
      [] base = "second" -> 2
      [] base = "first" -> 1

\* Index of the first runner whose target base has the highest priority.
selectTargetRunner(runners) ==
    CHOOSE i \in 1..Len(runners) :
        /\ \A j \in 1..Len(runners) :
              priorities(runners[j].targetBase) <= priorities(runners[i].targetBase)
        /\ \A j \in 1..(i - 1) :
              priorities(runners[j].targetBase) < priorities(runners[i].targetBase)

\* timeDelay in units of 1/100 s; the result is the set of possible rulings.
attemptPlay(runner, battingTeam, fielder, timeDelay) ==
    LET RD == RunDen(Player(battingTeam, runner.player))
        FD == ThrowDen(fielder)
        throwDistance == IF isOutfielder(fielder) THEN 200 ELSE 90
        runnerTime == 60 * 200 * FD
        throwTime == throwDistance * 200 * RD + timeDelay * RD * FD
        tagTime == (30 - 2 * fielder.fielding) * RD * FD
        totalFielderTime == throwTime + tagTime
        margin == runnerTime - totalFielderTime
    IN  IF runner.isForced
        THEN {IF runnerTime > throwTime THEN "OUT" ELSE "SAFE"}
        ELSE IF Abs(margin) < 20 * RD * FD
        THEN {"OUT", "SAFE"}
        ELSE {IF runnerTime > totalFielderTime THEN "OUT" ELSE "SAFE"}

getFielderAtBase(base, fieldingTeam) ==
    getFielderByPosition(fieldingTeam,
        CASE base = "first" -> "First Base"
          [] base = "second" -> "Second Base"
          [] base = "third" -> "Third Base"
          [] base = "home" -> "Catcher")

\* Chance of trying for an extra base, in units of 1/100.
shouldRunnerAdvanceExtra(runner, battingTeam, ballType, throwCount) ==
    LET baseChance == IF ballType = "GROUND" THEN 30 ELSE 10
        throwBonus == throwCount * 15
        aggressionBonus == Player(battingTeam, runner.player).running * 2
    IN  Draw(baseChance + throwBonus + aggressionBonus, 100)

getNextBase(current) ==
    CASE current = "home" -> "first"
      [] current = "first" -> "second"
      [] current = "second" -> "third"
      [] current = "third" -> "home"

RemoveAt(seq, i) == SubSeq(seq, 1, i - 1) \o SubSeq(seq, i + 1, Len(seq))

\* The occupant of a base after the play: the last active runner standing on it.
FinalOccupant(active, base) ==
    LET on == {i \in 1..Len(active) : active[i].targetBase = base}
    IN  IF on = {} THEN NoPlayer
        ELSE active[CHOOSE i \in on : \A j \in on : j <= i].player

\* After the loop every remaining runner is moved to the target base.
BuildFinalBases(active) ==
    [first |-> FinalOccupant(active, "first"),
     second |-> FinalOccupant(active, "second"),
     third |-> FinalOccupant(active, "third")]


\* History of a double-play attempt: the throw count at which it was made,
\* the runner it was made on, whether that runner was forced, and whether
\* a remaining runner had a target base of higher priority.
DoublePlayAttempt(throwCount, nextTarget, remaining) ==
    [throwCount |-> throwCount, player |-> nextTarget.player,
     isForced |-> nextTarget.isForced,
     outranked |-> \E j \in 1..Len(remaining) :
                      priorities(remaining[j].targetBase)
                          > priorities(nextTarget.targetBase)]

\* mutant: the double play is tried after the first out whatever the throw
PlayOut_RelayAfterAnyThrow(st, ctx, ti) ==
    LET target == st.active[ti]
        a1 == RemoveAt(st.active, ti)
        outs1 == st.outs + 1
        nextFielder1 == IF target.targetBase # "home"
                        THEN getFielderAtBase(target.targetBase, ctx.fieldingTeam)
                        ELSE st.fielder
        noDP == [active |-> a1, outs |-> outs1, runs |-> st.runs,
                 throwCount |-> st.throwCount + 1, fielder |-> nextFielder1,
                 relays |-> st.relays, attempts |-> st.attempts]
    IN  IF outs1 < 2 /\ Len(a1) > 0
        THEN LET ni == selectTargetRunner(a1)
                 nextTarget == a1[ni]
                 nextFielder == getFielderAtBase(nextTarget.targetBase, ctx.fieldingTeam)
                 attempt == DoublePlayAttempt(st.throwCount, nextTarget, a1)
             IN  IF nextTarget.isForced
                 THEN {IF dp = "OUT"
                       THEN [noDP EXCEPT !.active = RemoveAt(a1, ni),
                                         !.outs = outs1 + 1,
                                         !.relays = st.relays + 1,
                                         !.attempts = Append(st.attempts, attempt)]
                       ELSE [noDP EXCEPT !.relays = st.relays + 1,
                                         !.attempts = Append(st.attempts, attempt)]
                       : dp \in attemptPlay(nextTarget, ctx.battingTeam, nextFielder, 30)}
                 ELSE {noDP}
        ELSE {noDP}

\* One pass of the throw loop after the target runner was ruled out:
\* the runner is removed and, on the first throw only, a double play is tried
\* on the next target when that runner is forced.
PlayOut(st, ctx, ti) ==
    LET target == st.active[ti]
        a1 == RemoveAt(st.active, ti)
        outs1 == st.outs + 1
        nextFielder1 == IF target.targetBase # "home"
                        THEN getFielderAtBase(target.targetBase, ctx.fieldingTeam)
                        ELSE st.fielder
        noDP == [active |-> a1, outs |-> outs1, runs |-> st.runs,
                 throwCount |-> st.throwCount + 1, fielder |-> nextFielder1,
                 relays |-> st.relays, attempts |-> st.attempts]
    IN  IF outs1 < 2 /\ Len(a1) > 0 /\ st.throwCount = 0
        THEN LET ni == selectTargetRunner(a1)
                 nextTarget == a1[ni]
                 nextFielder == getFielderAtBase(nextTarget.targetBase, ctx.fieldingTeam)
                 attempt == DoublePlayAttempt(st.throwCount, nextTarget, a1)
             IN  IF nextTarget.isForced
                 THEN {IF dp = "OUT"
                       THEN [noDP EXCEPT !.active = RemoveAt(a1, ni),
                                         !.outs = outs1 + 1,
                                         !.relays = st.relays + 1,
                                         !.attempts = Append(st.attempts, attempt)]
                       ELSE [noDP EXCEPT !.relays = st.relays + 1,
                                         !.attempts = Append(st.attempts, attempt)]
                       : dp \in attemptPlay(nextTarget, ctx.battingTeam, nextFielder, 30)}
                 ELSE {noDP}
        ELSE {noDP}

\* One pass of the throw loop after the target runner was ruled safe.
PlaySafe(st, ctx, ti) ==
    LET target == st.active[ti]
        arrived == [target EXCEPT !.currentBase = target.targetBase]
    IN  IF target.targetBase = "home"
        THEN {[st EXCEPT !.active = RemoveAt(st.active, ti),
                         !.runs = st.runs + 1,
                         !.throwCount = st.throwCount + 1]}
        ELSE {IF adv
              THEN LET newTarget == getNextBase(arrived.currentBase)
                   IN  [st EXCEPT !.active[ti] = [arrived EXCEPT !.targetBase = newTarget,
                                                                 !.isForced = FALSE],
                                  !.throwCount = st.throwCount + 1,
                                  !.fielder = IF newTarget # "home"
                                              THEN getFielderAtBase(newTarget, ctx.fieldingTeam)
                                              ELSE st.fielder]
              ELSE [st EXCEPT !.active[ti] = arrived,
                              !.throwCount = st.throwCount + 1,
                              !.fielder = getFielderAtBase(target.targetBase,
                                                           ctx.fieldingTeam)]
              : adv \in shouldRunnerAdvanceExtra(target, ctx.battingTeam, ctx.ballType,
                                                 st.throwCount)}

\* mutant: the throw cap is tested one throw late
ThrowLoopContinues_OneMoreThrow(st) ==
    st.throwCount <= MAX_THROWS /\ Len(st.active) > 0 /\ st.outs < 3

\* while (throwCount < MAX_THROWS && activeRunners.length > 0 && outsRecorded < 3)
ThrowLoopContinues(st) ==
    st.throwCount < MAX_THROWS /\ Len(st.active) > 0 /\ st.outs < 3

ThrowLoopPass(st, ctx) ==
    LET ti == selectTargetRunner(st.active)
        rulings == attemptPlay(st.active[ti], ctx.battingTeam, st.fielder,
                               ctx.fieldingTime + st.throwCount * 50)
    IN  UNION {IF r = "OUT" THEN PlayOut(st, ctx, ti) ELSE PlaySafe(st, ctx, ti)
               : r \in rulings}

RECURSIVE ThrowLoop(_, _)
ThrowLoop(st, ctx) ==
    IF ThrowLoopContinues(st)
    THEN UNION {ThrowLoop(next, ctx) : next \in ThrowLoopPass(st, ctx)}
    ELSE {[outsRecorded |-> st.outs, runsScored |-> st.runs,
           finalBases |-> BuildFinalBases(st.active),
           throws |-> st.throwCount, relays |-> st.relays,
           attempts |-> st.attempts]}

\* The set of results the advancement can produce for the given runners.
simulateRunnerAdvancement(runners, primaryFielder, battingTeam, fieldingTeam, ballType) ==
    ThrowLoop([active |-> runners, outs |-> 0, runs |-> 0, throwCount |-> 0,
               fielder |-> primaryFielder, relays |-> 0, attempts |-> <<>>],
              [battingTeam |-> battingTeam, fieldingTeam |-> fieldingTeam,
               ballType |-> ballType,
               fieldingTime |-> calculateFieldingTime(primaryFielder, ballType)])


determinePlayType(batter, finalBases, outsRecorded) ==
    IF outsRecorded >= 3 THEN "TRIPLE_PLAY"
    ELSE IF outsRecorded >= 2 THEN "DOUBLE_PLAY"
    ELSE IF finalBases.first = batter THEN "SINGLE"
    ELSE IF finalBases.second = batter THEN "DOUBLE"
    ELSE IF finalBases.third = batter THEN "TRIPLE"
    ELSE IF outsRecorded > 0 THEN "OUT"
    ELSE "SINGLE"

FieldOutcome(playType, outsRecorded, runsScored, updatedBases, caught, fielder) ==
    [playType |-> playType, outsRecorded |-> outsRecorded, runsScored |-> runsScored,
     updatedBases |-> updatedBases, ballCaught |-> caught, primary_fielder |-> fielder]

\* The outfielder an infielder's miss rolls to.
MissedTo(ball) ==
    IF ball.attack < -20 THEN "Left Field"
    ELSE IF ball.attack > 20 THEN "Right Field"
    ELSE "Center Field"

\* Ball not caught and not a home run: the fielder the ball ends up with.
FieldersAfterMiss(ball, primary, ballType, fieldingTeam) ==
    IF isInfielder(primary) /\ ballType \in {"LINE", "GROUND"}
    THEN {IF fieldingError THEN getFielderByPosition(fieldingTeam, MissedTo(ball))
          ELSE primary
          \* fieldingError is Math.random() > rate
          : fieldingError \in {~ok : ok \in Draw(getFieldingSuccessRate(primary), 100)}}
    ELSE {primary}

\* The set of outcomes simulateFielding can apply to the game for one ball:
\* outsRecorded is added to game.outs, runsScored to the batting team's score,
\* updatedBases replaces game.basesOccupied.
simulateFielding(ball, bases, batter, battingTeam, fieldingTeam) ==
    LET ballType == classifyBall(ball)
        primary == getFielderByPosition(fieldingTeam, estimateDropZone(ball))
        catches == IF ballType # "GROUND"
                   THEN Draw(calculateCatchProbability(ball, primary, ballType), 10000)
                   ELSE {FALSE}
        Caught ==
            {FieldOutcome(IF 1 + t.outsRecorded >= 2 THEN "DOUBLE_PLAY" ELSE "OUT",
                          1 + t.outsRecorded, t.runsScored, t.finalBases, TRUE, primary)
             : t \in handleTagUp(bases, primary, battingTeam)}
        Homer ==
            {FieldOutcome("HOME_RUN", 0, getRunsFromHomer(bases), EmptyBases, FALSE, primary)}
        NotCaught ==
            UNION {{FieldOutcome(determinePlayType(batter, r.finalBases, r.outsRecorded),
                                 r.outsRecorded, r.runsScored, r.finalBases, FALSE, f)
                    : r \in simulateRunnerAdvancement(initializeRunners(bases, batter),
                                                      f, battingTeam, fieldingTeam, ballType)}
                   : f \in FieldersAfterMiss(ball, primary, ballType, fieldingTeam)}
    IN  UNION {IF ballCaught THEN Caught
               ELSE IF ball.homer THEN Homer
               ELSE NotCaught
               : ballCaught \in catches}


\* ------------------------------------------------------------------------
\* Game state (class Game) and the locals of Game.simulate.
\* ------------------------------------------------------------------------
VARIABLES homeScore, awayScore, currentInning, isTopHalf, homeBatterIndex,
          awayBatterIndex, outs, basesOccupied, isGameOver, winner,
          runsAtStartOfHalf, startingAwayScore, pc,
          \* history: the batting team's score when the current half began,
          \* and the kind of the last step of the loop
          halfStartScore, lastStep,
          \* history: the ball put in play by the last step was flagged a homer;
          \* who caught it in the air ("infield", "outfield" or "none")
          lastHomer, lastCatch,
          \* a single play resolved by simulateFieldingWithRunners
          play,
          \* a single plate appearance run by simulateAtBat
          atBat

gameVars == <<homeScore, awayScore, currentInning, isTopHalf, homeBatterIndex,
              awayBatterIndex, outs, basesOccupied, isGameOver, winner,
              runsAtStartOfHalf, startingAwayScore, pc, halfStartScore, lastStep,
              lastHomer, lastCatch>>

vars == <<homeScore, awayScore, currentInning, isTopHalf, homeBatterIndex,
          awayBatterIndex, outs, basesOccupied, isGameOver, winner,
          runsAtStartOfHalf, startingAwayScore, pc, halfStartScore, lastStep,
          lastHomer, lastCatch, play, atBat>>

NoTeam == "none"
NoPlay == [phase |-> "idle"]
\* battedBall is <<>> (undefined) or <<ball>>
NoAtBat == [phase |-> "idle", balls |-> 0, strikes |-> 0, pitches |-> 0,
            lastPitch |-> "NONE", outcome |-> "NONE", battedBall |-> <<>>]

getBattingTeam == IF isTopHalf THEN "away" ELSE "home"
getFieldingTeam == IF isTopHalf THEN "home" ELSE "away"
BattingScore == IF isTopHalf THEN awayScore ELSE homeScore
BatterIndex == IF isTopHalf THEN awayBatterIndex ELSE homeBatterIndex
\* the hitter is players[batterIndex % 9]
Hitter == BatterIndex % LineupSize

\* The state after `new Game(homeTeam, awayTeam)`, at the call of simulate().
GameInit ==
    /\ homeScore = 0
    /\ awayScore = 0
    /\ currentInning = 1
    /\ isTopHalf = TRUE
    /\ homeBatterIndex = 0
    /\ awayBatterIndex = 0
    /\ outs = 0
    /\ basesOccupied = EmptyBases
    /\ isGameOver = FALSE
    /\ winner = NoTeam
    /\ runsAtStartOfHalf = 0
    /\ startingAwayScore = 0
    /\ pc = "loop"
    /\ halfStartScore = 0
    /\ lastStep = "start"
    /\ lastHomer = FALSE
    /\ lastCatch = "none"

Init ==
    /\ GameInit
    /\ play = NoPlay
    /\ atBat = NoAtBat

\* mutant: the runs always go to the away team
addRuns_AlwaysAway(runs) ==
    /\ awayScore' = awayScore + runs
    /\ homeScore' = homeScore

\* addRuns: runs go to the team batting in the current half.
addRuns(runs) ==
    /\ awayScore' = IF isTopHalf THEN awayScore + runs ELSE awayScore
    /\ homeScore' = IF isTopHalf THEN homeScore ELSE homeScore + runs

\* mutant: the runner on third comes home whenever first and second are taken
handleWalk_ScoresFromFirstAndSecond(bases, batter) ==
    IF bases.first # NoPlayer /\ bases.second # NoPlayer
    THEN [bases |-> [first |-> batter, second |-> bases.first, third |-> bases.second],
          runs |-> 1]
    ELSE IF bases.first # NoPlayer
    THEN [bases |-> [first |-> batter, second |-> bases.first, third |-> bases.third],
          runs |-> 0]
    ELSE [bases |-> [bases EXCEPT !.first = batter], runs |-> 0]

\* handleWalk: the bases after the walk and the runs it adds.
handleWalk(bases, batter) ==
    IF bases.first # NoPlayer /\ bases.second # NoPlayer /\ bases.third # NoPlayer
    THEN [bases |-> [first |-> batter, second |-> bases.first, third |-> bases.second],
          runs |-> 1]
    ELSE IF bases.first # NoPlayer /\ bases.second # NoPlayer
    THEN [bases |-> [first |-> batter, second |-> bases.first, third |-> bases.second],
          runs |-> 0]
    ELSE IF bases.first # NoPlayer
    THEN [bases |-> [first |-> batter, second |-> bases.first, third |-> bases.third],
          runs |-> 0]
    ELSE [bases |-> [bases EXCEPT !.first = batter], runs |-> 0]

\* Top of the loop body: the snapshot is refreshed whenever outs is 0.
SnapshotAtLoopTop ==
    runsAtStartOfHalf' = IF outs = 0 THEN BattingScore ELSE runsAtStartOfHalf

\* mutant: the index of the home team is advanced whoever bats
NextBatter_AlwaysHome ==
    /\ awayBatterIndex' = awayBatterIndex
    /\ homeBatterIndex' = homeBatterIndex + 1

NextBatter ==
    /\ awayBatterIndex' = IF isTopHalf THEN awayBatterIndex + 1 ELSE awayBatterIndex
    /\ homeBatterIndex' = IF isTopHalf THEN homeBatterIndex ELSE homeBatterIndex + 1

\* Batters who came up without being put out, beyond three per inning.
ExtraBatters == BatterIndex - 3 * (currentInning - 1) - outs

AtBat == pc = "loop" /\ ~isGameOver /\ outs < 3

\* Loop iteration whose at-bat ends in a WALK.
Walk ==
    /\ AtBat
    /\ ExtraBatters < MaxExtraBatters
    /\ LET w == handleWalk(basesOccupied, Hitter)
       IN  /\ BattingScore + w.runs <= MaxScore
           /\ addRuns(w.runs)
           /\ basesOccupied' = w.bases
    /\ SnapshotAtLoopTop
    /\ NextBatter
    /\ lastStep' = "WALK"
    /\ lastHomer' = FALSE
    /\ lastCatch' = "none"
    /\ UNCHANGED <<currentInning, isTopHalf, outs, isGameOver, winner,
                   startingAwayScore, pc, halfStartScore, play, atBat>>

\* Loop iteration whose at-bat ends in a STRIKEOUT.
Strikeout ==
    /\ AtBat
    /\ outs' = outs + 1
    /\ SnapshotAtLoopTop
    /\ NextBatter
    /\ lastStep' = "STRIKEOUT"
    /\ lastHomer' = FALSE
    /\ lastCatch' = "none"
    /\ UNCHANGED <<homeScore, awayScore, currentInning, isTopHalf, basesOccupied,
                   isGameOver, winner, startingAwayScore, pc, halfStartScore, play, atBat>>

\* Loop iteration whose at-bat puts a fair ball in play.
InPlay ==
    /\ AtBat
    /\ ExtraBatters < MaxExtraBatters
    /\ \E ball \in FairBalls :
         \E f \in simulateFielding(ball, basesOccupied, Hitter,
                                   getBattingTeam, getFieldingTeam) :
            /\ BattingScore + f.runsScored <= MaxScore
            /\ addRuns(f.runsScored)
            /\ outs' = outs + f.outsRecorded
            /\ basesOccupied' = f.updatedBases
            /\ lastStep' = f.playType
            /\ lastHomer' = ball.homer
            /\ lastCatch' = IF ~f.ballCaught THEN "none"
                            ELSE IF isOutfielder(f.primary_fielder) THEN "outfield"
                            ELSE "infield"
    /\ SnapshotAtLoopTop
    /\ NextBatter
    /\ UNCHANGED <<currentInning, isTopHalf, isGameOver, winner,
                   startingAwayScore, pc, halfStartScore, play, atBat>>


EndOfHalf == pc = "loop" /\ ~isGameOver /\ outs >= 3

\* mutant: the early stop is not restricted to the ninth inning or later
EarlyStopCondition_AnyInning ==
    /\ isTopHalf = TRUE
    /\ awayScore < homeScore
    /\ awayScore = startingAwayScore

EarlyStopCondition ==
    /\ currentInning >= RegulationInnings
    /\ isTopHalf = TRUE
    /\ awayScore < homeScore
    /\ awayScore = startingAwayScore

\* mutant: the bottom half ends the game even when the score is tied
BottomEndCondition_IgnoresTie ==
    /\ currentInning >= RegulationInnings
    /\ isTopHalf = FALSE

BottomEndCondition ==
    /\ currentInning >= RegulationInnings
    /\ isTopHalf = FALSE
    /\ homeScore # awayScore

\* End of the top of the 9th or later, decided for the home team: the loop
\* breaks and simulate() returns.
EndGameEarly ==
    /\ EndOfHalf
    /\ EarlyStopCondition
    /\ isGameOver' = TRUE
    /\ winner' = "home"
    /\ pc' = "returned"
    /\ lastStep' = "EARLY_STOP"
    /\ lastHomer' = FALSE
    /\ lastCatch' = "none"
    /\ UNCHANGED <<homeScore, awayScore, currentInning, isTopHalf, homeBatterIndex,
                   awayBatterIndex, outs, basesOccupied, runsAtStartOfHalf,
                   startingAwayScore, halfStartScore, play, atBat>>

\* mutant: the comparison is inverted
HigherScore_Flipped == IF homeScore > awayScore THEN "away" ELSE "home"

\* winner = homeScore > awayScore ? homeTeam : awayTeam
HigherScore == IF homeScore > awayScore THEN "home" ELSE "away"

\* End of the bottom of the 9th or later with the score not tied.
EndGameBottom ==
    /\ EndOfHalf
    /\ ~EarlyStopCondition
    /\ BottomEndCondition
    /\ isGameOver' = TRUE
    /\ winner' = HigherScore
    /\ pc' = "returned"
    /\ lastStep' = "BOTTOM_END"
    /\ lastHomer' = FALSE
    /\ lastCatch' = "none"
    /\ UNCHANGED <<homeScore, awayScore, currentInning, isTopHalf, homeBatterIndex,
                   awayBatterIndex, outs, basesOccupied, runsAtStartOfHalf,
                   startingAwayScore, halfStartScore, play, atBat>>

\* mutant: the bases are not cleared
nextHalf_KeepsBases ==
    /\ currentInning' = IF ~isTopHalf THEN currentInning + 1 ELSE currentInning
    /\ isTopHalf' = ~isTopHalf
    /\ outs' = 0
    /\ basesOccupied' = basesOccupied

\* mutant: the inning is incremented when the top half ends
nextHalf_IncrementsAfterTop ==
    /\ currentInning' = IF isTopHalf THEN currentInning + 1 ELSE currentInning
    /\ isTopHalf' = ~isTopHalf
    /\ outs' = 0
    /\ basesOccupied' = EmptyBases

\* Game.nextHalf
nextHalf ==
    /\ currentInning' = IF ~isTopHalf THEN currentInning + 1 ELSE currentInning
    /\ isTopHalf' = ~isTopHalf
    /\ outs' = 0
    /\ basesOccupied' = EmptyBases

\* End of a half that does not end the game.
NextHalfInning ==
    /\ EndOfHalf
    /\ ~EarlyStopCondition
    /\ ~BottomEndCondition
    /\ (~isTopHalf => currentInning < MaxInning)
    /\ nextHalf
    /\ halfStartScore' = IF isTopHalf THEN homeScore ELSE awayScore
    /\ lastStep' = "NEXT_HALF"
    /\ lastHomer' = FALSE
    /\ lastCatch' = "none"
    /\ UNCHANGED <<homeScore, awayScore, homeBatterIndex, awayBatterIndex, isGameOver,
                   winner, runsAtStartOfHalf, startingAwayScore, pc, play, atBat>>

Next ==
    \/ Walk
    \/ Strikeout
    \/ InPlay
    \/ EndGameEarly
    \/ EndGameBottom
    \/ NextHalfInning

Spec == Init /\ [][Next]_vars


\* ------------------------------------------------------------------------
\* fielding.ts: simulateFielding (batter-only outcome) and
\* simulateFieldingWithRunners (outs, runs and runner advances of one play).
\* Skills are the stats 0..10; probabilities are in the units noted.
\* ------------------------------------------------------------------------
SkillLevels == {0, 5, 10}

OUTFIELD == {"Left Field", "Center Field", "Right Field"}
INFIELD == {"First Base", "Second Base", "Third Base", "Shortstop"}

isOutfielderPos(pos) == pos \in OUTFIELD
isInfielderPos(pos) == pos \in INFIELD

\* catchProbability: a positive logistic baseline times positive factors,
\* clamped to [0, 0.995]; grounders are not caught in the air.
catchProbability(ball, ballType) ==
    IF ballType = "GROUND" \/ (ball.homer /\ ball.launch > 0) THEN {FALSE} ELSE BOOLEAN

\* fieldCleanlyProbability is clamped to [0.5, 0.99].
fieldCleanlyProbability == BOOLEAN

BaseHit(bases) ==
    [bases |-> bases,
     fieldOutcome |-> CASE bases = 0 -> "OUT"
                        [] bases = 1 -> "SINGLE"
                        [] bases = 2 -> "DOUBLE"
                        [] bases = 3 -> "TRIPLE"]

\* The batter's possible results on a ball that was not caught.
chooseBaseHitOutcome(ball, fielding, running, pos, ballType, clean) ==
    IF ~isOutfielderPos(pos)
    THEN IF ballType = "GROUND"
         THEN \* pOut is clamped to [0.1, 0.95]; units of 1/1000 for takeExtra
              LET takeExtra == clamp(150 + 20 * running - 10 * fielding, 0, 500)
              IN  (IF clean THEN {BaseHit(0)} ELSE {})
                  \cup {BaseHit(1)}
                  \cup (IF ~clean /\ TRUE \in Draw(takeExtra, 1000)
                        THEN {BaseHit(2)} ELSE {})
         ELSE LET hustleDouble ==
                      clamp(50 + 18 * running + (IF clean THEN 0 ELSE 120)
                            - 10 * fielding, 0, 350)
              IN  {BaseHit(IF d THEN 2 ELSE 1) : d \in Draw(hustleDouble, 1000)}
    ELSE \* units of 1/35000
         LET angle == Abs(ball.attack)
             gapBonus == IF angle >= 20 /\ angle <= 45 THEN 3500 ELSE 0
             lineBonus == IF angle >= 60 THEN 6300 ELSE 0
             veloFactor == clamp(ball.velo - 55, 0, 35)
             strategyHold == 3500 + 700 * fielding + (IF clean THEN 3500 ELSE 0)
             p2raw == 3500 + 450 * veloFactor + gapBonus + lineBonus
                      + (IF ballType = "LINE" THEN 2800 ELSE 0)
                      + (IF ballType = "FLY" THEN 1050 ELSE 0)
                      + 420 * running
             p3raw == 700 + 120 * veloFactor + 280 * running
             p2 == clamp(p2raw - strategyHold, 0, 29750)
             p3 == clamp(p3raw - (6 * strategyHold) \div 10, 0, 12250)
         IN  (IF p3 > 0 THEN {BaseHit(3)} ELSE {})
             \cup (IF p2 > 0 THEN {BaseHit(2)} ELSE {})
             \cup (IF p3 + p2 < 35000 THEN {BaseHit(1)} ELSE {})

FieldResponse(hit, error, result, basesTaken, caught) ==
    [hit |-> hit, error |-> error, result |-> result, basesTaken |-> basesTaken,
     caught |-> caught]

\* fielding.ts simulateFielding: the set of FieldResponses for a ball.
simulateFieldingBatter(ball, fielding, running) ==
    IF ball.homer /\ ball.launch > 0
    THEN {FieldResponse(TRUE, FALSE, "HOME_RUN", 4, FALSE)}
    ELSE LET pos == DropZone(ball, 5)
             ballType == classifyBall(ball)
         IN  UNION {
               IF caught
               THEN {FieldResponse(FALSE, FALSE, "OUT", 0, TRUE)}
               ELSE UNION {
                      {FieldResponse(TRUE, ~clean /\ h.bases > 0, h.fieldOutcome,
                                     h.bases, FALSE)
                       : h \in chooseBaseHitOutcome(ball, fielding, running, pos,
                                                    ballType, clean)}
                      : clean \in fieldCleanlyProbability}
               : caught \in catchProbability(ball, ballType)}

\* mutant: with a runner on second and none on first the throw goes to third
chooseOutfieldThrowTarget_SecondOnlyToThird(runners) ==
    IF runners.second /\ runners.first THEN 4
    ELSE IF runners.second /\ ~runners.first THEN 3
    ELSE IF runners.first THEN 3
    ELSE 2

\* mutant: with the lead runner on third the throw goes home
chooseOutfieldThrowTarget_HomeWithLeadOnThird(runners) ==
    IF runners.second /\ runners.first THEN 4
    ELSE IF runners.second /\ ~runners.first THEN 4
    ELSE IF runners.first THEN 3
    ELSE IF runners.third THEN 4
    ELSE 2

chooseOutfieldThrowTarget(runners) ==
    IF runners.second /\ runners.first THEN 4
    ELSE IF runners.second /\ ~runners.first THEN 4
    ELSE IF runners.first THEN 3
    ELSE 2

BaseNames == {"first", "second", "third"}
BaseNumber(b) == CASE b = "first" -> 1 [] b = "second" -> 2 [] b = "third" -> 3
\* runnerAdvances has no entry for a base
NoAdvance == -1
NoAdvances == [b \in BaseNames |-> NoAdvance]

PlayResult(field, outsRec, runs, batterBases, runnerAdvances, runnersOut) ==
    [field |-> field, outs |-> outsRec, runs |-> runs, batterBases |-> batterBases,
     runnerAdvances |-> runnerAdvances, runnersOut |-> runnersOut]


\* The draws of one play; each probability behind them is clamped strictly
\* inside (0, 1) (tagUpAdvanceProb, throwOutProbability, the advance chances),
\* so every draw can go either way.
DrawNames == {"r3", "r2", "r1", "out3", "out2", "throw"}
PlayDraws == [DrawNames -> BOOLEAN]

\* mutant: the batter's own run is not counted
HomeRunPlay_BatterNotCounted(runners, field) ==
    PlayResult(field, 0,
               Cardinality({b \in BaseNames : runners[b]}), 4,
               [b \in BaseNames |-> IF runners[b] THEN 4 - BaseNumber(b) ELSE NoAdvance],
               <<>>)

\* 0) home run: everyone advances fully
HomeRunPlay(runners, field) ==
    PlayResult(field, 0,
               1 + Cardinality({b \in BaseNames : runners[b]}), 4,
               [b \in BaseNames |-> IF runners[b] THEN 4 - BaseNumber(b) ELSE NoAdvance],
               <<>>)

\* 1) caught in the air: tag-ups are allowed only on a catch in the outfield.
\* d.r3/r2/r1: the runner tags up; d.out3/out2: the throw beats the runner.
CaughtPlay(runners, field, pos, d) ==
    LET allowTags == isOutfielderPos(pos)
        go3 == allowTags /\ runners.third /\ d.r3
        go2 == allowTags /\ runners.second /\ d.r2
        go1 == allowTags /\ runners.first /\ d.r1
        out3 == go3 /\ d.out3
        out2 == go2 /\ d.out2
    IN  PlayResult(field,
                   1 + (IF out3 THEN 1 ELSE 0) + (IF out2 THEN 1 ELSE 0),
                   IF go3 /\ ~out3 THEN 1 ELSE 0,
                   0,
                   [first |-> IF go1 THEN 1 ELSE NoAdvance,
                    second |-> IF go2 /\ ~out2 THEN 1 ELSE NoAdvance,
                    third |-> IF go3 /\ ~out3 THEN 1 ELSE NoAdvance],
                   (IF out3 THEN <<"third">> ELSE <<>>)
                   \o (IF out2 THEN <<"second">> ELSE <<>>))

\* The runner the outfield throw contests: <<base, advanceNeeded>> or <<>>.
ContestedRunner(runners, adv, target) ==
    IF target = 4
    THEN IF runners.second /\ adv.second = 2 THEN <<"second", 2>>
         ELSE IF runners.third /\ adv.third = 1 THEN <<"third", 1>>
         ELSE <<>>
    ELSE IF target = 3
    THEN IF runners.first /\ adv.first >= 2 THEN <<"first", 2>>
         ELSE IF runners.second /\ adv.second >= 1 THEN <<"second", 1>>
         ELSE <<>>
    ELSE IF runners.first /\ adv.first >= 1 THEN <<"first", 1>>
         ELSE <<>>

\* mutant: the run of a runner thrown out at home is not rescinded
OutfieldHitPlay_RunNotRescinded(runners, field, batterTakes, d) ==
    LET adv == [third |-> IF runners.third /\ d.r3 THEN 1 ELSE NoAdvance,
                second |-> IF runners.second THEN (IF d.r2 THEN 2 ELSE 1) ELSE NoAdvance,
                first |-> IF runners.first THEN (IF d.r1 THEN 2 ELSE 1) ELSE NoAdvance]
        runs == (IF runners.third /\ d.r3 THEN 1 ELSE 0)
                + (IF runners.second /\ d.r2 THEN 1 ELSE 0)
        target == chooseOutfieldThrowTarget(runners)
        contested == ContestedRunner(runners, adv, target)
    IN  IF contested # <<>> /\ d.throw
        THEN PlayResult(field, 1, runs, batterTakes,
                        [adv EXCEPT ![contested[1]] = 0],
                        <<contested[1]>>)
        ELSE PlayResult(field, 0, runs, batterTakes, adv, <<>>)

\* 2) not caught, fielded by an outfielder.
\* d.r3: R3 scores; d.r2: R2 scores (else to third); d.r1: R1 takes two bases.
OutfieldHitPlay(runners, field, batterTakes, d) ==
    LET adv == [third |-> IF runners.third /\ d.r3 THEN 1 ELSE NoAdvance,
                second |-> IF runners.second THEN (IF d.r2 THEN 2 ELSE 1) ELSE NoAdvance,
                first |-> IF runners.first THEN (IF d.r1 THEN 2 ELSE 1) ELSE NoAdvance]
        runs == (IF runners.third /\ d.r3 THEN 1 ELSE 0)
                + (IF runners.second /\ d.r2 THEN 1 ELSE 0)
        target == chooseOutfieldThrowTarget(runners)
        contested == ContestedRunner(runners, adv, target)
    IN  IF contested # <<>> /\ d.throw
        THEN PlayResult(field, 1,
                        IF target = 4 /\ contested[1] \in {"third", "second"}
                        THEN Max(0, runs - 1) ELSE runs,
                        batterTakes,
                        [adv EXCEPT ![contested[1]] = 0],
                        <<contested[1]>>)
        ELSE PlayResult(field, 0, runs, batterTakes, adv, <<>>)

\* mutant: a throw cuts down the runner from third at the plate
InfieldHitPlay_ThrowsHome(runners, field, batterTakes, d) ==
    PlayResult(field,
               IF runners.third /\ d.r3 /\ d.throw THEN 1 ELSE 0,
               IF runners.third /\ d.r3 /\ ~d.throw THEN 1 ELSE 0,
               batterTakes,
               [third |-> IF runners.third /\ d.r3
                          THEN (IF d.throw THEN 0 ELSE 1) ELSE NoAdvance,
                second |-> IF runners.second THEN (IF d.r2 THEN 1 ELSE 0) ELSE NoAdvance,
                first |-> IF runners.first THEN (IF d.r1 THEN 1 ELSE 0) ELSE NoAdvance],
               IF runners.third /\ d.r3 /\ d.throw THEN <<"third">> ELSE <<>>)

\* 2) not caught, fielded in the infield: conservative advances, no throws.
InfieldHitPlay(runners, field, batterTakes, d) ==
    PlayResult(field, 0,
               IF runners.third /\ d.r3 THEN 1 ELSE 0,
               batterTakes,
               [third |-> IF runners.third /\ d.r3 THEN 1 ELSE NoAdvance,
                second |-> IF runners.second THEN (IF d.r2 THEN 1 ELSE 0) ELSE NoAdvance,
                first |-> IF runners.first THEN (IF d.r1 THEN 1 ELSE 0) ELSE NoAdvance],
               <<>>)

\* The set of PlayResults for the runners (occupancy of the three bases), the
\* ball, the fielder's fielding stat and the batter's running stat.
simulateFieldingWithRunners(runners, ball, fielding, running) ==
    LET pos == DropZone(ball, 5)
    IN  UNION {
          {IF field.result = "HOME_RUN" /\ field.basesTaken = 4
           THEN HomeRunPlay(runners, field)
           ELSE IF field.result = "OUT" /\ field.hit = FALSE
           THEN CaughtPlay(runners, field, pos, d)
           ELSE IF isOutfielderPos(pos)
           THEN OutfieldHitPlay(runners, field, clamp(field.basesTaken, 1, 3), d)
           ELSE InfieldHitPlay(runners, field, clamp(field.basesTaken, 1, 3), d)
           : d \in PlayDraws}
          : field \in simulateFieldingBatter(ball, fielding, running)}

\* ------------------------------------------------------------------------
\* One play: the inputs are drawn at the start, the play is then resolved.
\* ------------------------------------------------------------------------
Occupancies == [BaseNames -> BOOLEAN]

NoResult == [field |-> FieldResponse(FALSE, FALSE, "NONE", 0, FALSE), outs |-> 0,
             runs |-> 0, batterBases |-> 0, runnerAdvances |-> NoAdvances,
             runnersOut |-> <<>>]

InitPlay ==
    /\ GameInit
    /\ \E runners \in Occupancies, outsBefore \in 0..2, ball \in FairBalls,
          fielding \in SkillLevels, running \in SkillLevels :
         play = [phase |-> "input", runners |-> runners, outs |-> outsBefore,
                 ball |-> ball, fielding |-> fielding, running |-> running,
                 result |-> NoResult]
    /\ atBat = NoAtBat

ResolvePlay ==
    /\ play.phase = "input"
    /\ \E r \in simulateFieldingWithRunners(play.runners, play.ball, play.fielding,
                                            play.running) :
         play' = [play EXCEPT !.phase = "resolved", !.result = r]
    /\ UNCHANGED <<gameVars, atBat>>

NextPlay == ResolvePlay

SpecPlay == InitPlay /\ [][NextPlay]_vars


\* ------------------------------------------------------------------------
\* Properties of the game state machine
\* ------------------------------------------------------------------------

\* C1: the out count observed after each plate appearance is between 0 and 3,
\* and it is 0 at the start of every half-inning.
C1_OutsBetweenZeroAndThree ==
    /\ outs >= 0
    /\ outs <= 3
    /\ (lastStep \in {"start", "NEXT_HALF"} => outs = 0)

\* C5: a finished game is in inning 9 or later and was ended by one of the
\* two end-of-half rules, never in mid-half with fewer than three outs.
C5_TerminalOnlyAtEndOfHalf ==
    isGameOver =>
        /\ currentInning >= RegulationInnings
        /\ outs >= 3
        /\ \/ isTopHalf /\ awayScore < homeScore /\ lastStep = "EARLY_STOP"
           \/ ~isTopHalf /\ homeScore # awayScore /\ lastStep = "BOTTOM_END"

C5_Witness ==
    isGameOver /\ isTopHalf /\ currentInning = RegulationInnings /\ outs >= 3

\* C6: when the top of an inning >= 9 ends with the away team trailing and
\* scoreless in that half, the game ends at once and the home team wins.
C6_EarlyStopWhenAwayScorelessInHalf ==
    [][(EndOfHalf /\ isTopHalf /\ currentInning >= RegulationInnings
        /\ awayScore < homeScore /\ awayScore = halfStartScore)
       => (isGameOver' /\ winner' = "home" /\ isTopHalf' /\ currentInning' = currentInning)]_vars

\* C7: at the end of the bottom of an inning >= 9 the game ends if and only if
\* the score is not tied; a tied game goes on to the top of the next inning.
C7_BottomHalfEndsGameIffNotTied ==
    [][(EndOfHalf /\ ~isTopHalf /\ currentInning >= RegulationInnings)
       => /\ isGameOver' <=> (homeScore # awayScore)
          /\ (homeScore = awayScore) =>
                (currentInning' = currentInning + 1 /\ isTopHalf' /\ outs' = 0)]_vars

C7_Witness ==
    isGameOver /\ ~isTopHalf /\ currentInning = RegulationInnings + 1

\* C8: when simulate() has returned the game is over and the winner is the
\* team with the strictly greater score.
C8_ReturnedGameHasStrictWinner ==
    pc = "returned" =>
        /\ isGameOver
        /\ winner \in Teams
        /\ homeScore # awayScore
        /\ (winner = "home") <=> (homeScore > awayScore)

C8_Witness ==
    pc = "returned" /\ winner = "away" /\ lastStep = "BOTTOM_END"

\* C9: with three outs no further batter comes up in the half; the next state
\* is either the end of the game or the next half with no outs and empty bases.
C9_ThreeOutsEndTheHalf ==
    [][(outs >= 3 /\ pc = "loop")
       => /\ UNCHANGED <<homeBatterIndex, awayBatterIndex, homeScore, awayScore>>
          /\ \/ isGameOver'
             \/ /\ isTopHalf' # isTopHalf
                /\ outs' = 0
                /\ basesOccupied' = EmptyBases]_vars

\* five batters came up in the top of the first, so runners were left on
C9_Witness ==
    /\ lastStep = "NEXT_HALF"
    /\ currentInning = 1
    /\ ~isTopHalf
    /\ awayBatterIndex = 5
    /\ awayScore = 0
    /\ basesOccupied = EmptyBases

\* C10 as stated: the inning number goes up on the step from the top half to
\* the bottom half.
C10_InningIncrementsFromTopToBottom ==
    [][(lastStep' = "NEXT_HALF" /\ EndOfHalf)
       => /\ isTopHalf' = ~isTopHalf
          /\ currentInning' = (IF isTopHalf THEN currentInning + 1 ELSE currentInning)
          /\ outs' = 0
          /\ basesOccupied' = EmptyBases]_vars

\* C10 amended: the inning number goes up on the step from the bottom half to
\* the next top half and is unchanged from top to bottom.
C10_InningIncrementsFromBottomToTop ==
    [][(lastStep' = "NEXT_HALF" /\ EndOfHalf)
       => /\ isTopHalf' = ~isTopHalf
          /\ currentInning' = (IF isTopHalf THEN currentInning ELSE currentInning + 1)
          /\ outs' = 0
          /\ basesOccupied' = EmptyBases]_vars

C10_Witness ==
    lastStep = "NEXT_HALF" /\ currentInning = 2 /\ isTopHalf /\ outs = 0


\* ------------------------------------------------------------------------
\* Properties of a single play (simulateFieldingWithRunners)
\* ------------------------------------------------------------------------
Resolved == play.phase = "resolved"

\* Where a pre-play runner stands after the play (4 or more: scored).
FinalBase(result, b) == BaseNumber(b) + Max(result.runnerAdvances[b], 0)

IsOut(result, b) == \E i \in 1..Len(result.runnersOut) : result.runnersOut[i] = b

\* Origin and final base of everybody still in the play: the runners who were
\* not put out and the batter (origin 0) when he takes a base.
Placements(runners, result) ==
    {<<BaseNumber(b), FinalBase(result, b)>> :
        b \in {x \in BaseNames : runners[x] /\ ~IsOut(result, x)}}
    \cup (IF result.batterBases >= 1 THEN {<<0, result.batterBases>>} ELSE {})

\* C2: the outs a play records never exceed the outs left in the half-inning
\* (3 minus the outs before the play), and never exceed 3.
C2_OutsWithinRemaining ==
    Resolved =>
        /\ play.result.outs <= 3 - play.outs
        /\ play.result.outs <= 3

\* C3: after a play at most one player stands on each base and no trailing
\* runner ends on or beyond the base of a runner who started ahead of him.
C3_NoSharedOrPassedBase ==
    Resolved =>
        \A p, q \in Placements(play.runners, play.result) :
            (p[1] < q[1] /\ q[2] <= 3) => p[2] < q[2]

\* C4: a batter whose fielding result is OUT takes no base and the play
\* records an out; a batter who takes a base was not ruled OUT.
C4_BatterOutTakesNoBase ==
    Resolved =>
        /\ (play.result.field.result = "OUT") =>
              (play.result.batterBases = 0 /\ play.result.outs >= 1)
        /\ (play.result.batterBases >= 1) => (play.result.field.result # "OUT")


\* ------------------------------------------------------------------------
\* Batting order
\* ------------------------------------------------------------------------

\* C11: every plate appearance advances the batting team's batting-order
\* index by one and leaves the other team's index alone, the batter is lineup
\* slot (index mod 9) -- a walked batter is the runner put on first -- and a
\* step that is not a plate appearance changes neither index.
C11_BattingOrderAdvancesByOne ==
    [][/\ AtBat =>
            /\ awayBatterIndex' = awayBatterIndex + (IF isTopHalf THEN 1 ELSE 0)
            /\ homeBatterIndex' = homeBatterIndex + (IF isTopHalf THEN 0 ELSE 1)
            /\ (lastStep' = "WALK") =>
                  basesOccupied'.first = (IF isTopHalf THEN awayBatterIndex
                                          ELSE homeBatterIndex) % 9
       /\ ~AtBat => UNCHANGED <<awayBatterIndex, homeBatterIndex>>]_vars

\* the away team's eleventh batter (index 10, slot 1 again) has walked
C11_Witness ==
    /\ lastStep = "WALK"
    /\ isTopHalf
    /\ awayBatterIndex = 11
    /\ homeBatterIndex >= 9
    /\ basesOccupied.first = 1


\* ------------------------------------------------------------------------
\* Home runs
\* ------------------------------------------------------------------------

\* C12: a home-run play has result HOME_RUN, no outs, batterBases 4, runs equal
\* to 1 plus the number of occupied bases, every runner advanced all the way
\* home (1 from third, 2 from second, 3 from first) and nobody left on base.
C12_HomeRunScoresEveryone ==
    (Resolved /\ (play.result.field.result = "HOME_RUN"
                  \/ (play.ball.homer /\ play.ball.launch > 0))) =>
        /\ play.result.field.result = "HOME_RUN"
        /\ play.result.outs = 0
        /\ play.result.batterBases = 4
        /\ play.result.runs = 1 + Cardinality({b \in BaseNames : play.runners[b]})
        /\ play.result.runnersOut = <<>>
        /\ \A b \in BaseNames :
              play.result.runnerAdvances[b] =
                  (IF play.runners[b] THEN 4 - BaseNumber(b) ELSE NoAdvance)
        /\ \A p \in Placements(play.runners, play.result) : p[2] >= 4

\* a grand slam
C12_Witness ==
    /\ Resolved
    /\ play.ball.homer
    /\ \A b \in BaseNames : play.runners[b]
    /\ play.result.runs = 4
    /\ play.result.batterBases = 4

\* C13: in the game, a ball flagged as a home run always resolves to HOME_RUN:
\* it is never caught and never turned into an out.
C13_HomerAlwaysHomeRun ==
    lastHomer => lastStep = "HOME_RUN"


\* ------------------------------------------------------------------------
\* Catches in the infield
\* ------------------------------------------------------------------------

\* C14: when a fielder who is not an outfielder catches the ball in the air
\* nobody tags up: the play is exactly one out, no run scores and the runners
\* stay where they were.
C14_NoTagUpOnInfieldCatch ==
    [][(lastCatch' = "infield") =>
          /\ outs' = outs + 1
          /\ UNCHANGED <<homeScore, awayScore, basesOccupied>>]_vars


\* ------------------------------------------------------------------------
\* Hits: throws and runs
\* ------------------------------------------------------------------------
\* The ball was not caught and is not a home run.
BaseHitPlay ==
    /\ Resolved
    /\ play.result.field.hit
    /\ play.result.field.result # "HOME_RUN"

OutfieldHit == BaseHitPlay /\ isOutfielderPos(DropZone(play.ball, 5))
InfieldHit == BaseHitPlay /\ ~isOutfielderPos(DropZone(play.ball, 5))

\* C15: on an outfield hit the throw target follows from the occupied bases
\* alone: second with the bases empty, third with a runner on first only,
\* home with a runner on second whoever else is on.
C15_ThrowTargetByOccupancy ==
    OutfieldHit =>
        LET target == chooseOutfieldThrowTarget(play.runners)
        IN  /\ (~play.runners.first /\ ~play.runners.second /\ ~play.runners.third)
                  => target = 2
            /\ (play.runners.first /\ ~play.runners.second /\ ~play.runners.third)
                  => target = 3
            /\ play.runners.second => target = 4

\* runners on second and third, the runner from second is cut down at home
C15_Witness ==
    /\ OutfieldHit
    /\ play.runners = [first |-> FALSE, second |-> TRUE, third |-> TRUE]
    /\ play.result.runnersOut = <<"second">>

\* C16: on an outfield hit with the bases empty or a runner on third only,
\* no runner is put out and the play records no out.
C16_NoOutWithLeadOnThirdOrEmpty ==
    (OutfieldHit /\ ~play.runners.first /\ ~play.runners.second) =>
        /\ play.result.runnersOut = <<>>
        /\ play.result.outs = 0

\* the runner on third scores on an outfield hit
C16_Witness ==
    /\ OutfieldHit
    /\ play.runners = [first |-> FALSE, second |-> FALSE, third |-> TRUE]
    /\ play.result.runs = 1

\* C17: on a ball fielded in the infield and not caught no runner is thrown
\* out, whatever bases are occupied.
C17_NoRunnerOutOnInfieldHit ==
    InfieldHit => play.result.runnersOut = <<>>

\* bases loaded, the runner from third scores on the infield hit
C17_Witness ==
    /\ InfieldHit
    /\ \A b \in BaseNames : play.runners[b]
    /\ play.result.runs = 1

\* Runners who reach home and are not put out, plus the batter on a home run.
PlayersHome(runners, result) ==
    Cardinality({b \in BaseNames :
                    runners[b] /\ ~IsOut(result, b) /\ FinalBase(result, b) >= 4})
    + (IF result.batterBases = 4 THEN 1 ELSE 0)

\* C18: a runner thrown out on an outfield hit is in runnersOut with an
\* advance of zero, and in every play the runs equal the number of runners
\* (plus the batter on a home run) who reach home and are not put out.
C18_RunsMatchRunnersHome ==
    Resolved =>
        /\ play.result.runs = PlayersHome(play.runners, play.result)
        /\ OutfieldHit =>
              /\ play.result.outs = Len(play.result.runnersOut)
              /\ \A b \in BaseNames :
                    IsOut(play.result, b) =>
                        (play.runners[b] /\ play.result.runnerAdvances[b] = 0)

\* the runner from second is thrown out at home after the runner from third
\* scored: one run stands, one is rescinded
C18_Witness ==
    /\ OutfieldHit
    /\ play.runners.second /\ play.runners.third
    /\ play.result.runnersOut = <<"second">>
    /\ play.result.runnerAdvances.third = 1
    /\ play.result.runs = 1


\* ------------------------------------------------------------------------
\* simulateAtBat: one plate appearance, pitch by pitch.  The strike call, the
\* swing decision, contact and the foul flag all come from draws with normal
\* noise, so every kind of pitch outcome is possible on every pitch.
\* ------------------------------------------------------------------------
MAX_PITCHES == 30

\* let balls = 0; let strikes = 0; pitches = []
InitAtBat ==
    /\ GameInit
    /\ play = NoPlay
    /\ atBat = [phase |-> "pitching", balls |-> 0, strikes |-> 0, pitches |-> 0,
                lastPitch |-> "NONE", outcome |-> "NONE", battedBall |-> <<>>]

\* the loop body runs: for (let i = 0; i < MAX_PITCHES; i++)
Pitching == atBat.phase = "pitching" /\ atBat.pitches < MAX_PITCHES

\* pitches.push(pitch) and the counts after the pitch
Thrown(kind, balls, strikes) ==
    [atBat EXCEPT !.pitches = atBat.pitches + 1, !.lastPitch = kind,
                  !.balls = balls, !.strikes = strikes]

\* return { outcome, balls, strikes, pitches, swings, battedBall }
Returned(ab, outcome) == [ab EXCEPT !.phase = "returned", !.outcome = outcome]

\* return { outcome, balls, strikes, pitches, swings }: no battedBall
ReturnedNoBall(ab, outcome) ==
    [ab EXCEPT !.phase = "returned", !.outcome = outcome, !.battedBall = <<>>]

\* The balls calculateHit can return: fair ones, and the same balls sprayed
\* outside the fair cone (determineFoul: |attack| > 45).
FoulBalls == {[b EXCEPT !.foul = TRUE, !.attack = 60] : b \in FairBalls}

\* not swung, pitch.isStrike
TakenStrike ==
    /\ Pitching
    /\ LET ab == Thrown("TAKEN_STRIKE", atBat.balls, atBat.strikes + 1)
       IN  atBat' = IF ab.strikes >= 3 THEN ReturnedNoBall(ab, "STRIKEOUT") ELSE ab
    /\ UNCHANGED <<gameVars, play>>

\* mutant: the walk is called on the third ball
TakenBall_WalkOnThree ==
    /\ Pitching
    /\ LET ab == Thrown("TAKEN_BALL", atBat.balls + 1, atBat.strikes)
       IN  atBat' = IF ab.balls >= 3 THEN ReturnedNoBall(ab, "WALK") ELSE ab
    /\ UNCHANGED <<gameVars, play>>

\* not swung, not a strike
TakenBall ==
    /\ Pitching
    /\ LET ab == Thrown("TAKEN_BALL", atBat.balls + 1, atBat.strikes)
       IN  atBat' = IF ab.balls >= 4 THEN ReturnedNoBall(ab, "WALK") ELSE ab
    /\ UNCHANGED <<gameVars, play>>

\* swung, no contact
Whiff ==
    /\ Pitching
    /\ LET ab == Thrown("WHIFF", atBat.balls, atBat.strikes + 1)
       IN  atBat' = IF ab.strikes >= 3 THEN ReturnedNoBall(ab, "STRIKEOUT") ELSE ab
    /\ UNCHANGED <<gameVars, play>>

\* mutant: a foul never adds a strike
Foul_NeverStrike ==
    /\ Pitching
    /\ atBat' = Thrown("FOUL", atBat.balls, atBat.strikes)
    /\ UNCHANGED <<gameVars, play>>

\* mutant: a foul is a strike like any other
Foul_AlwaysStrike ==
    /\ Pitching
    /\ LET ab == Thrown("FOUL", atBat.balls, atBat.strikes + 1)
       IN  atBat' = IF ab.strikes >= 3 THEN ReturnedNoBall(ab, "STRIKEOUT") ELSE ab
    /\ UNCHANGED <<gameVars, play>>

\* mutant: the foul ball is kept as the at-bat's batted ball
Foul_KeepsBall ==
    /\ Pitching
    /\ \E contact \in FoulBalls :
         atBat' = [Thrown("FOUL", atBat.balls,
                          IF atBat.strikes < 2 THEN atBat.strikes + 1 ELSE atBat.strikes)
                   EXCEPT !.battedBall = <<contact>>]
    /\ UNCHANGED <<gameVars, play>>

\* contact.foul
Foul ==
    /\ Pitching
    /\ atBat' = Thrown("FOUL", atBat.balls,
                       IF atBat.strikes < 2 THEN atBat.strikes + 1 ELSE atBat.strikes)
    /\ UNCHANGED <<gameVars, play>>

\* fair ball in play
Fair ==
    /\ Pitching
    /\ \E contact \in FairBalls :
         atBat' = Returned([Thrown("FAIR", atBat.balls, atBat.strikes)
                            EXCEPT !.battedBall = <<contact>>], "IN_PLAY")
    /\ UNCHANGED <<gameVars, play>>

\* mutant: the fallback ignores the strike count
PitchCap_AlwaysWalk ==
    /\ atBat.phase = "pitching"
    /\ atBat.pitches >= MAX_PITCHES
    /\ atBat' = Returned(atBat, "WALK")
    /\ UNCHANGED <<gameVars, play>>

\* after the loop: outcome: strikes >= 2 ? "STRIKEOUT" : "WALK"
PitchCap ==
    /\ atBat.phase = "pitching"
    /\ atBat.pitches >= MAX_PITCHES
    /\ atBat' = Returned(atBat, IF atBat.strikes >= 2 THEN "STRIKEOUT" ELSE "WALK")
    /\ UNCHANGED <<gameVars, play>>

NextAtBat ==
    \/ TakenStrike
    \/ TakenBall
    \/ Whiff
    \/ Foul
    \/ Fair
    \/ PitchCap

SpecAtBat == InitAtBat /\ [][NextAtBat]_vars

\* simulateAtBat runs synchronously to its return: a step that can be taken
\* is taken.
SpecAtBatFair == SpecAtBat /\ WF_vars(NextAtBat)

\* ------------------------------------------------------------------------
\* Properties of the at-bat
\* ------------------------------------------------------------------------

\* C19 as stated: no at-bat ends as STRIKEOUT when its last pitch was fouled
\* off.
C19_NoStrikeoutAfterFoul ==
    (atBat.phase = "returned" /\ atBat.outcome = "STRIKEOUT")
        => atBat.lastPitch # "FOUL"

\* C19 amended: a foul adds a strike only below two strikes and never ends
\* the at-bat; an at-bat whose last pitch was fouled off ends as STRIKEOUT
\* only when the pitch cap is exhausted with two strikes.
C19_FoulStrikesOutOnlyAtPitchCap ==
    [][/\ (atBat'.pitches = atBat.pitches + 1 /\ atBat'.lastPitch = "FOUL") =>
            /\ atBat'.strikes = (IF atBat.strikes < 2 THEN atBat.strikes + 1
                                 ELSE atBat.strikes)
            /\ atBat'.strikes < 3
            /\ atBat'.balls = atBat.balls
            /\ atBat'.phase = "pitching"
       /\ (atBat'.phase = "returned" /\ atBat'.outcome = "STRIKEOUT"
           /\ atBat'.lastPitch = "FOUL") =>
            /\ atBat.pitches = MAX_PITCHES
            /\ atBat'.strikes = 2]_vars

\* five pitches, no ball: at least three fouls, the last ones with two strikes
C19_Witness ==
    /\ atBat.phase = "pitching"
    /\ atBat.lastPitch = "FOUL"
    /\ atBat.strikes = 2
    /\ atBat.balls = 0
    /\ atBat.pitches = 5

\* The counts while pitches continue and the effect of one pitch on them.
PitchCountStep ==
    /\ (atBat'.phase = "pitching") => (atBat'.balls < 4 /\ atBat'.strikes < 3)
    /\ (atBat'.pitches = atBat.pitches + 1) =>
          /\ (atBat'.lastPitch = "TAKEN_BALL") =>
                (atBat'.balls = atBat.balls + 1 /\ atBat'.strikes = atBat.strikes)
          /\ (atBat'.lastPitch \in {"TAKEN_STRIKE", "WHIFF"}) =>
                (atBat'.strikes = atBat.strikes + 1 /\ atBat'.balls = atBat.balls)
    /\ (atBat'.phase = "returned") => (atBat'.balls <= 4 /\ atBat'.strikes <= 3)

C21_AtBatEndsWithinPitchCap ==
    /\ [](atBat.pitches <= MAX_PITCHES)
    /\ <>(atBat.phase = "returned")
    /\ [][(atBat.phase = "pitching" /\ atBat.pitches = MAX_PITCHES) =>
             /\ atBat'.phase = "returned"
             /\ atBat'.outcome = (IF atBat.strikes >= 2 THEN "STRIKEOUT" ELSE "WALK")
             /\ atBat'.pitches = atBat.pitches
             /\ atBat'.balls = atBat.balls
             /\ atBat'.strikes = atBat.strikes]_vars

\* the thirtieth pitch is fouled off with two strikes and the cap resolves
C21_Witness ==
    /\ atBat.phase = "returned"
    /\ atBat.pitches = MAX_PITCHES
    /\ atBat.lastPitch = "FOUL"
    /\ atBat.outcome = "STRIKEOUT"
    /\ atBat.strikes = 2


\* C22: a returned at-bat is IN_PLAY exactly when it carries a batted ball,
\* and the ball it carries is never foul; a WALK or STRIKEOUT carries none.
C22_InPlayIffFairBattedBall ==
    (atBat.phase = "returned") =>
        /\ (atBat.outcome = "IN_PLAY") <=> (atBat.battedBall # <<>>)
        /\ (atBat.battedBall # <<>>) => ~atBat.battedBall[1].foul
        /\ (atBat.outcome \in {"WALK", "STRIKEOUT"}) => (atBat.battedBall = <<>>)

\* a fair ball put in play after a foul
C22_Witness ==
    /\ atBat.phase = "returned"
    /\ atBat.outcome = "IN_PLAY"
    /\ atBat.battedBall = <<FlyToCenter>>
    /\ atBat.strikes = 1
    /\ atBat.pitches = 2


\* ------------------------------------------------------------------------
\* Team configuration: the fielder lookups and the Game constructor.
\* A team is its players array, here the assigned positions in lineup order;
\* a result names the fielder by position, or says that the call threw.
\* ------------------------------------------------------------------------
PositionSet == {Positions[i] : i \in 1..Len(Positions)}

players(assigned) == SelectSeq(Positions, LAMBDA p : p \in assigned)

Find(roster, pos) == \E i \in 1..Len(roster) : roster[i] = pos

FirstOf(roster, order) ==
    LET hits == SelectSeq(order, LAMBDA alt : Find(roster, alt))
    IN  IF Len(hits) > 0 THEN hits[1] ELSE "undefined"

\* Team.getFielderByPosition: the player at the position, or an Error
Team_getFielderByPosition(roster, pos) ==
    IF Find(roster, pos)
    THEN [thrown |-> FALSE, fielder |-> pos]
    ELSE [thrown |-> TRUE, fielder |-> "None"]

\* fielding.ts lookupFielder: exact match, else the nearest line mate
lookupFielder(roster, pos) ==
    IF Find(roster, pos) THEN pos
    ELSE IF pos \in OUTFIELD
         THEN FirstOf(roster, <<"Center Field", "Left Field", "Right Field">>)
    ELSE IF pos \in INFIELD
         THEN FirstOf(roster, <<"Shortstop", "Second Base", "Third Base", "First Base">>)
    ELSE FirstOf(roster, <<"Catcher", "Pitcher">>)

\* players[0] ?? new Player(): a new Player sits on the bench
chooseFallbackFielder(roster) == IF Len(roster) > 0 THEN roster[1] ELSE "Bench"

\* new Game(homeTeam, awayTeam)
GameConstructor(home, away) == [thrown |-> home = away, fielder |-> "None"]

NoConfig(assigned) ==
    [phase |-> "config", assigned |-> assigned, op |-> "None", required |-> "None",
     home |-> "None", away |-> "None", thrown |-> FALSE, fielder |-> "None"]

InitConfig ==
    /\ GameInit
    /\ atBat = NoAtBat
    /\ \E assigned \in SUBSET PositionSet : play = NoConfig(assigned)

Configuring == play.phase = "config"

\* team.getFielderByPosition(position)
TeamLookup ==
    /\ Configuring
    /\ \E pos \in PositionSet :
         LET r == Team_getFielderByPosition(players(play.assigned), pos)
         IN  play' = [play EXCEPT !.phase = "done", !.op = "getFielderByPosition",
                                  !.required = pos, !.thrown = r.thrown,
                                  !.fielder = r.fielder]
    /\ UNCHANGED <<gameVars, atBat>>

\* simulateFielding(ball, fieldingTeam) of fielding.ts, up to the choice of
\* the fielder: lookupFielder(team, pos) ?? chooseFallbackFielder(team)
FieldingLookup ==
    /\ Configuring
    /\ \E ball \in FairBalls :
         LET roster == players(play.assigned)
             pos == estimateDropZone(ball)
             found == lookupFielder(roster, pos)
         IN  play' = IF ball.homer /\ ball.launch > 0
                     THEN [play EXCEPT !.phase = "done", !.op = "simulateFielding",
                                       !.fielder = chooseFallbackFielder(roster)]
                     ELSE [play EXCEPT !.phase = "done", !.op = "simulateFielding",
                                       !.required = pos,
                                       !.fielder = IF found # "undefined" THEN found
                                                   ELSE chooseFallbackFielder(roster)]
    /\ UNCHANGED <<gameVars, atBat>>

\* new Game(homeTeam, awayTeam)
Construct ==
    /\ Configuring
    /\ \E home \in Teams, away \in Teams :
         play' = [play EXCEPT !.phase = "done", !.op = "Game", !.home = home,
                              !.away = away,
                              !.thrown = GameConstructor(home, away).thrown]
    /\ UNCHANGED <<gameVars, atBat>>

NextConfig == TeamLookup \/ FieldingLookup \/ Construct

SpecConfig == InitConfig /\ [][NextConfig]_vars

\* C23: a lookup of a required fielding position that no player is assigned
\* to throws and returns no fielder, and constructing a Game whose home and
\* away teams are the same team throws.
C23_ConfigurationErrorsAbort ==
    (play.phase = "done") =>
        /\ (play.required # "None" /\ play.required \notin play.assigned) =>
               (play.thrown /\ play.fielder = "None")
        /\ (play.op = "Game" /\ play.home = play.away) => play.thrown


\* ------------------------------------------------------------------------
\* The box score.  simulate() only writes it; the entry written when a half
\* ends is the value of runsThisHalf at that point of the loop.
\* ------------------------------------------------------------------------
runsThisHalf == BattingScore - runsAtStartOfHalf

\* C24: when a half-inning ends, the run total recorded for it is the batting
\* team's score at the end of the half minus its score when the half began,
\* runs scored before the first out included.
C24_InningScoreIsRunsOfHalf ==
    EndOfHalf => (runsThisHalf = BattingScore - halfStartScore)


\* ------------------------------------------------------------------------
\* calculateAirTime, in integers: speeds in mm/s, times in milliseconds
\* (rounded down).  Math.sin is the table of its values times 1000 at the
\* launch angles used.
\* ------------------------------------------------------------------------
MPH_TO_MMPS == 447
g_MMPS2 == 9807
contactHeightMM == 1000

AirVelos == {-10, 0, 10, 20, 30, 40, 50, 60, 70, 80, 90, 100}
AirLaunches == {-90, -45, -10, 0, 9, 15, 27, 35, 45, 70, 90}

SinMilli(deg) ==
    CASE deg = -90 -> -1000 [] deg = -45 -> -707 [] deg = -10 -> -174
      [] deg = 0 -> 0       [] deg = 9 -> 156    [] deg = 15 -> 259
      [] deg = 27 -> 454    [] deg = 35 -> 574   [] deg = 45 -> 707
      [] deg = 70 -> 940    [] deg = 90 -> 1000

RECURSIVE SqrtBetween(_, _, _)
\* the largest n in lo..hi with n * n <= x
SqrtBetween(x, lo, hi) ==
    IF lo >= hi THEN lo
    ELSE LET mid == (lo + hi + 1) \div 2
         IN  IF mid * mid <= x THEN SqrtBetween(x, mid, hi)
             ELSE SqrtBetween(x, lo, mid - 1)

\* Math.sqrt, rounded down
Sqrt(x) == SqrtBetween(x, 0, 46000)

calculateAirTime(ball) ==
    LET v == Max(0, ball.velo) * MPH_TO_MMPS
        vVertical == (v * SinMilli(ball.launch)) \div 1000
        raw == ((vVertical + Sqrt(vVertical * vVertical
                                  + 2 * g_MMPS2 * contactHeightMM)) * 1000) \div g_MMPS2
        t == IF raw < 0 THEN 0 ELSE raw
    IN  (t * 100) \div 108

InitAirTime ==
    /\ GameInit
    /\ atBat = NoAtBat
    /\ \E velo \in AirVelos, launch \in AirLaunches :
         play = [phase |-> "struck", ball |-> [velo |-> velo, launch |-> launch],
                 airTime |-> -1]

AirTime ==
    /\ play.phase = "struck"
    /\ play' = [play EXCEPT !.phase = "timed", !.airTime = calculateAirTime(play.ball)]
    /\ UNCHANGED <<gameVars, atBat>>

NextAirTime == AirTime

SpecAirTime == InitAirTime /\ [][NextAirTime]_vars

\* C25: calculateAirTime returns exactly 0 for a ball with velo = 0, and for
\* every ball a finite, non-negative number.
C25_AirTimeZeroAtZeroVelo ==
    (play.phase = "timed") =>
        /\ (play.ball.velo = 0) => (play.airTime = 0)
        /\ play.airTime >= 0


\* ------------------------------------------------------------------------
\* Two games that share their teams.  A Game is a record of its fields and
\* of the locals of simulate(); a Team is a record of its mutable field; one
\* step is one iteration of the loop of simulate(), with the random draws of
\* the iteration given: the outcome of the at-bat, the batted ball and the
\* outcome of the fielding.
\* ------------------------------------------------------------------------
MaxGameSteps == 3

NewTeams == [t \in Teams |-> [currentBatterIndex |-> 0]]

NewGame ==
    [homeScore |-> 0, awayScore |-> 0, currentInning |-> 1, isTopHalf |-> TRUE,
     homeBatterIndex |-> 0, awayBatterIndex |-> 0, outs |-> 0,
     basesOccupied |-> EmptyBases, isGameOver |-> FALSE, winner |-> NoTeam,
     runsAtStartOfHalf |-> 0, startingAwayScore |-> 0]

BattingTeamOf(g) == IF g.isTopHalf THEN "away" ELSE "home"
FieldingTeamOf(g) == IF g.isTopHalf THEN "home" ELSE "away"
ScoreOf(g) == IF g.isTopHalf THEN g.awayScore ELSE g.homeScore
HitterOf(g) == (IF g.isTopHalf THEN g.awayBatterIndex ELSE g.homeBatterIndex) % LineupSize

LeagueBalls == {HomerToLeft}

\* the draws one loop iteration of game g can make
Draws(g) ==
    {[outcome |-> o, ball |-> <<>>, fielding |-> <<>>] : o \in {"WALK", "STRIKEOUT"}}
    \cup UNION {{[outcome |-> "IN_PLAY", ball |-> <<b>>, fielding |-> <<f>>] :
                   f \in simulateFielding(b, g.basesOccupied, HitterOf(g),
                                          BattingTeamOf(g), FieldingTeamOf(g))} :
                b \in LeagueBalls}

WithRuns(g, runs) ==
    IF g.isTopHalf THEN [g EXCEPT !.awayScore = @ + runs]
    ELSE [g EXCEPT !.homeScore = @ + runs]

WithNextBatter(g) ==
    IF g.isTopHalf THEN [g EXCEPT !.awayBatterIndex = @ + 1]
    ELSE [g EXCEPT !.homeBatterIndex = @ + 1]

\* the at-bat branch of the loop body
AtBatStep(g, d) ==
    LET snap == [g EXCEPT !.runsAtStartOfHalf = IF g.outs = 0 THEN ScoreOf(g) ELSE @]
        w == handleWalk(g.basesOccupied, HitterOf(g))
        f == d.fielding[1]
    IN  WithNextBatter(
          IF d.outcome = "WALK"
          THEN [WithRuns(snap, w.runs) EXCEPT !.basesOccupied = w.bases]
          ELSE IF d.outcome = "STRIKEOUT"
          THEN [snap EXCEPT !.outs = @ + 1]
          ELSE [WithRuns(snap, f.runsScored) EXCEPT !.outs = @ + f.outsRecorded,
                                                    !.basesOccupied = f.updatedBases])

\* the end-of-half branch of the loop body
EndOfHalfStep(g) ==
    IF /\ g.currentInning >= RegulationInnings /\ g.isTopHalf
       /\ g.awayScore < g.homeScore /\ g.awayScore = g.startingAwayScore
    THEN [g EXCEPT !.isGameOver = TRUE, !.winner = "home"]
    ELSE IF g.currentInning >= RegulationInnings /\ ~g.isTopHalf
            /\ g.homeScore # g.awayScore
    THEN [g EXCEPT !.isGameOver = TRUE,
                   !.winner = IF g.homeScore > g.awayScore THEN "home" ELSE "away"]
    ELSE [g EXCEPT !.currentInning = IF ~g.isTopHalf THEN @ + 1 ELSE @,
                   !.isTopHalf = ~g.isTopHalf, !.outs = 0,
                   !.basesOccupied = EmptyBases]

\* mutant: the batting order is kept in Team.currentBatterIndex
simulateStep_TeamBatterIndex(teams, g, d) ==
    LET t == BattingTeamOf(g)
        i == teams[t].currentBatterIndex
        h == IF g.isTopHalf THEN [g EXCEPT !.awayBatterIndex = i]
             ELSE [g EXCEPT !.homeBatterIndex = i]
    IN  IF g.outs < 3
        THEN [game |-> AtBatStep(h, d),
              teams |-> [teams EXCEPT ![t].currentBatterIndex = i + 1]]
        ELSE [game |-> EndOfHalfStep(g), teams |-> teams]

\* one iteration of `while (!this.isGameOver)`: the game after it, and the
\* teams after it
simulateStep(teams, g, d) ==
    IF g.outs < 3
    THEN [game |-> AtBatStep(g, d), teams |-> teams]
    ELSE [game |-> EndOfHalfStep(g), teams |-> teams]

RECURSIVE RunAlone(_, _, _)
\* the game reached from g with fresh teams by the draws of script
RunAlone(teams, g, script) ==
    IF script = <<>> THEN g
    ELSE LET r == simulateStep(teams, g, Head(script))
         IN  RunAlone(r.teams, r.game, Tail(script))

InitLeague ==
    /\ GameInit
    /\ atBat = NoAtBat
    /\ play = [phase |-> "league", teams |-> NewTeams,
               games |-> <<NewGame, NewGame>>, draws |-> <<<<>>, <<>>>>]

\* game i runs one iteration of its loop
StepGame ==
    /\ play.phase = "league"
    /\ \E i \in 1..2 :
         /\ ~play.games[i].isGameOver
         /\ Len(play.draws[i]) < MaxGameSteps
         /\ \E d \in Draws(play.games[i]) :
              LET r == simulateStep(play.teams, play.games[i], d)
              IN  play' = [play EXCEPT !.games[i] = r.game, !.teams = r.teams,
                                       !.draws[i] = Append(@, d)]
    /\ UNCHANGED <<gameVars, atBat>>

NextLeague == StepGame

SpecLeague == InitLeague /\ [][NextLeague]_vars

MaxEvents == 3

EventTypes == {"pitchThrown", "atBatEnd"}
Narrations == {"undefined", "given"}

NewEventLog(enableNarration) ==
    [events |-> <<>>, nextId |-> 0, enableNarration |-> enableNarration]

\* addEvent(type, inning, halfInning, data, narration)
addEvent(log, type, narration) ==
    LET finalNarration == IF log.enableNarration /\ narration = "undefined"
                          THEN "generated" ELSE narration
        event == [id |-> log.nextId, type |-> type, narration |-> finalNarration]
    IN  [log EXCEPT !.nextId = @ + 1, !.events = Append(@, event)]

\* mutant: the id counter is not reset
clear_KeepsNextId(log) == [log EXCEPT !.events = <<>>]

\* clear()
clear(log) == [log EXCEPT !.events = <<>>, !.nextId = 0]

getEventCount(log) == Len(log.events)

InitEventLog ==
    /\ GameInit
    /\ atBat = NoAtBat
    /\ \E enableNarration \in BOOLEAN :
         play = [phase |-> "logging", log |-> NewEventLog(enableNarration),
                 added |-> 0, lastOp |-> "new", cleared |-> FALSE]

AddEvent ==
    /\ play.phase = "logging"
    /\ Len(play.log.events) < MaxEvents
    /\ \E type \in EventTypes, narration \in Narrations :
         play' = [play EXCEPT !.log = addEvent(@, type, narration),
                              !.added = @ + 1, !.lastOp = "addEvent"]
    /\ UNCHANGED <<gameVars, atBat>>

Clear ==
    /\ play.phase = "logging"
    /\ play' = [play EXCEPT !.log = clear(@), !.added = 0, !.lastOp = "clear",
                             !.cleared = TRUE]
    /\ UNCHANGED <<gameVars, atBat>>

NextEventLog == AddEvent \/ Clear

SpecEventLog == InitEventLog /\ [][NextEventLog]_vars

\* C27: after any sequence of addEvent and clear calls every stored event's id
\* is its index in the log (0, 1, 2, ... in insertion order), getEventCount is
\* the number of events added since the last clear, and the event added
\* right after a clear gets id 0.
C27_EventIdsAreIndexes ==
    /\ []((play.phase = "logging") =>
            /\ \A i \in 1..Len(play.log.events) : play.log.events[i].id = i - 1
            /\ getEventCount(play.log) = play.added)
    /\ [][(play.phase = "logging" /\ play.lastOp = "clear"
           /\ play'.lastOp = "addEvent") =>
             (Len(play'.log.events) = 1 /\ play'.log.events[1].id = 0)]_vars

\* events were added, the log was cleared, and two events were added again
C27_Witness ==
    /\ play.phase = "logging"
    /\ play.cleared
    /\ play.added = 2
    /\ play.log.nextId = 2
    /\ Len(play.log.events) = 2
    /\ play.log.events[2].narration = "generated"


\* ------------------------------------------------------------------------
\* Tag-up from third on a caught outfield fly (fielding.ts).  Probabilities
\* are in units of 1/10000, skills are the stats 0..10 (arm = fielding / 10,
\* speed = running / 10), air times are in milliseconds.
\* ------------------------------------------------------------------------
ShallowFly == Ball(57, 35, 0, FALSE, 193, 68)
MediumFly == Ball(60, 35, 0, FALSE, 214, 72)

\* the flies the tag-up is rated on: ball type FLY, dropping in the outfield
OutfieldFlies ==
    {b \in {ShallowFly, MediumFly, FlyToCenter} :
        classifyBall(b) = "FLY" /\ isOutfielderPos(estimateDropZone(b))}

\* logistic((airTime - 2.8) / 0.25), at the air times of OutfieldFlies
Logistic3(airTimeMs) ==
    CASE airTimeMs = 2823 -> 5230
      [] airTimeMs = 2965 -> 6593
      [] airTimeMs = 3441 -> 9285

estimateThrowDistanceCategory(pos, target) ==
    IF isOutfielderPos(pos)
    THEN IF target = 4 \/ target = 3 THEN "LONG"
         ELSE IF target = 2 THEN "MEDIUM" ELSE "LONG"
    ELSE IF isInfielderPos(pos)
    THEN IF target = 1 \/ target = 2 THEN "SHORT" ELSE "MEDIUM"
    ELSE IF target = 4 THEN "MEDIUM" ELSE "SHORT"

\* mutant: the fielder's skill lowers the chance of the out
throwOutProbability_SkillSubtracted(distance, fielderSkill, runnerSpeed, ballType) ==
    LET base == IF distance = "SHORT" THEN 8000
                ELSE IF distance = "MEDIUM" THEN 5500 ELSE 3000
        skilled == base - 200 * (fielderSkill - 5) - 200 * (runnerSpeed - 5)
        typed == IF ballType \in {"FLY", "POP"} THEN skilled - 500
                 ELSE IF ballType = "GROUND" THEN skilled + 500 ELSE skilled
    IN  clamp(typed, 500, 9500)

throwOutProbability(distance, fielderSkill, runnerSpeed, ballType) ==
    LET base == IF distance = "SHORT" THEN 8000
                ELSE IF distance = "MEDIUM" THEN 5500 ELSE 3000
        skilled == base + 200 * (fielderSkill - 5) - 200 * (runnerSpeed - 5)
        typed == IF ballType \in {"FLY", "POP"} THEN skilled - 500
                 ELSE IF ballType = "GROUND" THEN skilled + 500 ELSE skilled
    IN  clamp(typed, 500, 9500)

\* tagUpAdvanceProb(airTime, armSkill, 3)
tagUpAdvanceProb3(airTimeMs, armSkill) ==
    clamp(Logistic3(airTimeMs) - 200 * (clamp(armSkill, 0, 10) - 5), 2000, 9000)

\* The runner on third after the catch: tags with pTag, and is then thrown
\* out at home with pOut or scores.  Products are in units of 1/10^8.
TagUpOdds(ball, fielding, running) ==
    LET pos == estimateDropZone(ball)
        pTag == tagUpAdvanceProb3(calculateAirTime(ball), fielding)
        pOut == throwOutProbability(estimateThrowDistanceCategory(pos, 4),
                                    clamp(fielding, 0, 10), clamp(running, 0, 10),
                                    classifyBall(ball))
    IN  [thrownOut |-> pTag * pOut, scores |-> pTag * (10000 - pOut)]

InitTagUp ==
    /\ GameInit
    /\ atBat = NoAtBat
    /\ \E ball \in OutfieldFlies, fielding \in 0..9, running \in 0..10 :
         play = [phase |-> "caughtFly", ball |-> ball, fielding |-> fielding,
                 running |-> running, low |-> [thrownOut |-> 0, scores |-> 0],
                 high |-> [thrownOut |-> 0, scores |-> 0]]

\* the same caught fly, fielded with arm skill fielding and fielding + 1
RateArms ==
    /\ play.phase = "caughtFly"
    /\ play' = [play EXCEPT !.phase = "rated",
                            !.low = TagUpOdds(play.ball, play.fielding, play.running),
                            !.high = TagUpOdds(play.ball, play.fielding + 1,
                                               play.running)]
    /\ UNCHANGED <<gameVars, atBat>>

NextTagUp == RateArms

SpecTagUp == InitTagUp /\ [][NextTagUp]_vars

OnBase(bases) ==
    Cardinality({b \in {"first", "second", "third"} : bases[b] # NoPlayer})

\* the step is a ball put in play, resolved by simulateFielding(ball, game)
FieldedStep == lastStep' \notin {"WALK", "STRIKEOUT", "EARLY_STOP", "BOTTOM_END",
                                 "NEXT_HALF", "start"}

\* C29: on every play of the Game-mutating engine the batter and the runners
\* on base before the play are each on base after it, scored or out:
\* 1 + runners before = runners after + runs + outs.
C29_PlayersConserved ==
    [][FieldedStep =>
         1 + OnBase(basesOccupied) =
             OnBase(basesOccupied')
             + ((homeScore' + awayScore') - (homeScore + awayScore))
             + (outs' - outs)]_vars


\* ------------------------------------------------------------------------
\* One call of simulateRunnerAdvancement: the hitter of slot 3 puts the ball
\* in play with the players of slots 0, 1, 2 on first, second, third.
\* battingTeam and fieldingTeam name the roster whose stats each side has
\* (two clubs can have the same stats).
\* ------------------------------------------------------------------------
BallTypes == {"GROUND", "LINE", "FLY", "POP"}

AdvanceBases ==
    {[first |-> IF o.first THEN 0 ELSE NoPlayer,
      second |-> IF o.second THEN 1 ELSE NoPlayer,
      third |-> IF o.third THEN 2 ELSE NoPlayer] : o \in Occupancies}

NoAdvancement ==
    [outsRecorded |-> 0, runsScored |-> 0, finalBases |-> EmptyBases, throws |-> 0,
     relays |-> 0, attempts |-> <<>>]

InitAdvance ==
    /\ GameInit
    /\ atBat = NoAtBat
    /\ \E bases \in AdvanceBases, slot \in 0..(LineupSize - 1), ballType \in BallTypes,
          battingTeam \in Teams, fieldingTeam \in Teams :
         play = [phase |-> "hit", bases |-> bases, batter |-> 3,
                 battingTeam |-> battingTeam, fieldingTeam |-> fieldingTeam,
                 primaryFielder |-> Player(fieldingTeam, slot),
                 ballType |-> ballType, result |-> NoAdvancement]

Advance ==
    /\ play.phase = "hit"
    /\ \E r \in simulateRunnerAdvancement(initializeRunners(play.bases, play.batter),
                                          play.primaryFielder, play.battingTeam,
                                          play.fieldingTeam, play.ballType) :
         play' = [play EXCEPT !.phase = "advanced", !.result = r]
    /\ UNCHANGED <<gameVars, atBat>>

NextAdvance == Advance

SpecAdvance == InitAdvance /\ [][NextAdvance]_vars

\* C30: a play has at most one double-play attempt; it is made right after an
\* out on the first throw (throwCount 0), on the remaining runner of highest
\* priority, and only when that runner is forced; outs on later throws bring
\* no further attempt.
C30_OneDoublePlayAttempt ==
    (play.phase = "advanced") =>
        /\ Len(play.result.attempts) <= 1
        /\ play.result.relays = Len(play.result.attempts)
        /\ \A i \in 1..Len(play.result.attempts) :
              /\ play.result.attempts[i].throwCount = 0
              /\ play.result.attempts[i].isForced
              /\ ~play.result.attempts[i].outranked
              /\ play.result.outsRecorded >= 1

\* bases loaded: an out on the first throw, one double-play attempt, and
\* the throws that follow it
C30_Witness ==
    /\ play.phase = "advanced"
    /\ play.bases.first # NoPlayer /\ play.bases.second # NoPlayer
    /\ play.bases.third # NoPlayer
    /\ Len(play.result.attempts) = 1
    /\ play.result.attempts[1].player = 1
    /\ play.result.throws = MAX_THROWS
    /\ play.result.outsRecorded = 2


\* ------------------------------------------------------------------------
\* The while loop of simulateRunnerAdvancement, one pass at a time.
\* ------------------------------------------------------------------------
\* The bases before the play: any lineup slot but the batter's can stand on a
\* base; the runner on second is a fast one (slot 1) or a slow one (slot 6).
ThrowLoopBases ==
    {[first |-> f, second |-> s, third |-> t] :
        f \in {NoPlayer, 0}, s \in {NoPlayer, 1, 6}, t \in {NoPlayer, 2}}

InitThrowLoop ==
    /\ GameInit
    /\ atBat = NoAtBat
    /\ \E bases \in ThrowLoopBases, slot \in 0..(LineupSize - 1), ballType \in BallTypes,
          battingTeam \in Teams, fieldingTeam \in Teams :
         play = [phase |-> "loop", bases |-> bases, batter |-> 3,
                 \* let outsRecorded = 0 ... let throwCount = 0
                 st |-> [active |-> initializeRunners(bases, 3), outs |-> 0,
                         runs |-> 0, throwCount |-> 0,
                         fielder |-> Player(fieldingTeam, slot), relays |-> 0,
                         attempts |-> <<>>],
                 ctx |-> [battingTeam |-> battingTeam, fieldingTeam |-> fieldingTeam,
                          ballType |-> ballType,
                          fieldingTime |->
                              calculateFieldingTime(Player(fieldingTeam, slot), ballType)],
                 finalBases |-> EmptyBases]

\* one pass of the body of the while loop
ThrowPass ==
    /\ play.phase = "loop"
    /\ ThrowLoopContinues(play.st)
    /\ \E next \in ThrowLoopPass(play.st, play.ctx) : play' = [play EXCEPT !.st = next]
    /\ UNCHANGED <<gameVars, atBat>>

\* the loop condition fails: the final bases are built and the call returns
ThrowLoopReturn ==
    /\ play.phase = "loop"
    /\ ~ThrowLoopContinues(play.st)
    /\ play' = [play EXCEPT !.phase = "returned",
                            !.finalBases = BuildFinalBases(play.st.active)]
    /\ UNCHANGED <<gameVars, atBat>>

NextThrowLoop ==
    \/ ThrowPass
    \/ ThrowLoopReturn

SpecThrowLoop == InitThrowLoop /\ [][NextThrowLoop]_vars

\* simulateRunnerAdvancement runs synchronously to its return: a step that can
\* be taken is taken.
SpecThrowLoopFair == SpecThrowLoop /\ WF_vars(NextThrowLoop)

\* C31: the runner-advancement loop always returns, after at most MAX_THROWS
\* targeted plays and at most one double-play relay, whatever the rulings and
\* the extra-base decisions.
C31_ThrowLoopTerminates ==
    /\ [](play.st.throwCount <= MAX_THROWS /\ play.st.relays <= 1)
    /\ <>(play.phase = "returned")
    /\ [][(play.phase = "loop" /\ play'.phase = "loop") =>
             /\ play'.st.throwCount = play.st.throwCount + 1
             /\ play'.st.relays <= play.st.relays + 1]_vars

\* bases loaded: all MAX_THROWS targeted plays and the relay were made
C31_Witness ==
    /\ play.phase = "returned"
    /\ Len(initializeRunners(play.bases, play.batter)) = 4
    /\ play.st.throwCount = MAX_THROWS
    /\ play.st.relays = 1


\* A runner ruled safe at the target base who did not set off for the next
\* one: targetRunner.currentBase = targetRunner.targetBase.
Settled(runner) == runner.currentBase = runner.targetBase

\* C32: a runner ruled safe at the target base who does not try for an extra
\* base is not the target of a later throw of the play and is not put out.
C32_SettledRunnerLeftAlone ==
    [][(play.phase = "loop" /\ play'.phase = "loop") =>
          /\ ~Settled(play.st.active[selectTargetRunner(play.st.active)])
          /\ \A i \in 1..Len(play.st.active) :
                Settled(play.st.active[i]) =>
                    \E j \in 1..Len(play'.st.active) :
                        play'.st.active[j].player = play.st.active[i].player]_vars


\* C33: when the loop starts the batter and the runner from first are forced,
\* the runner from second is forced exactly when first was occupied and the
\* runner from third exactly when first and second both were; a runner whose
\* target base moves on to the next base is no longer forced.
C33_ForcedAtStartUnforcedOnExtraBase ==
    /\ []((play.phase = "loop" /\ play.st.throwCount = 0) =>
            /\ Len(play.st.active) = 1 + OnBase(play.bases)
            /\ \A i \in 1..Len(play.st.active) :
                 LET r == play.st.active[i]
                 IN  r.isForced <=>
                        CASE r.startBase \in {"home", "first"} -> TRUE
                          [] r.startBase = "second" -> play.bases.first # NoPlayer
                          [] r.startBase = "third" ->
                                (play.bases.first # NoPlayer
                                 /\ play.bases.second # NoPlayer))
    /\ [][(play.phase = "loop" /\ play'.phase = "loop") =>
            \A i \in 1..Len(play.st.active), j \in 1..Len(play'.st.active) :
                (/\ play.st.active[i].player = play'.st.active[j].player
                 /\ play.st.active[i].targetBase # play'.st.active[j].targetBase) =>
                    /\ ~play'.st.active[j].isForced
                    /\ play'.st.active[j].currentBase = play.st.active[i].targetBase
                    /\ play'.st.active[j].targetBase =
                          getNextBase(play.st.active[i].targetBase)]_vars

\* runners on first and third: the runner from third was not forced, and the
\* runner from first, forced at the start, is on his way to third unforced
C33_Witness ==
    /\ play.phase = "loop"
    /\ play.bases.first # NoPlayer /\ play.bases.second = NoPlayer
    /\ play.bases.third # NoPlayer
    /\ \E i \in 1..Len(play.st.active) :
          /\ play.st.active[i].startBase = "first"
          /\ play.st.active[i].targetBase = "third"
          /\ ~play.st.active[i].isForced


\* ------------------------------------------------------------------------
\* The WALK branch of Game.simulate from any state of a half inning: the
\* runners on base are the batters who came up before the hitter.
\* ------------------------------------------------------------------------
MaxWalks == 2

InitWalk ==
    /\ atBat = NoAtBat
    /\ play = [phase |-> "walks", count |-> 0]
    /\ isTopHalf \in BOOLEAN
    /\ currentInning \in 1..2
    /\ outs \in 0..2
    /\ homeScore \in 0..1
    /\ awayScore \in 0..1
    /\ \E index \in 3..5, o \in Occupancies :
         /\ awayBatterIndex = (IF isTopHalf THEN index ELSE 3)
         /\ homeBatterIndex = (IF isTopHalf THEN 3 ELSE index)
         /\ basesOccupied = [first |-> IF o.first THEN index - 1 ELSE NoPlayer,
                             second |-> IF o.second THEN index - 2 ELSE NoPlayer,
                             third |-> IF o.third THEN index - 3 ELSE NoPlayer]
    /\ isGameOver = FALSE
    /\ winner = NoTeam
    /\ runsAtStartOfHalf = 0
    /\ startingAwayScore = 0
    /\ pc = "loop"
    /\ halfStartScore = 0
    /\ lastStep = "start"
    /\ lastHomer = FALSE
    /\ lastCatch = "none"

\* if (result.outcome === "WALK") { ... this.handleWalk(hitter); ... continue; }
WalkBranch ==
    /\ AtBat
    /\ play.count < MaxWalks
    /\ LET w == handleWalk(basesOccupied, Hitter)
       IN  /\ addRuns(w.runs)
           /\ basesOccupied' = w.bases
    /\ SnapshotAtLoopTop
    /\ NextBatter
    /\ lastStep' = "WALK"
    /\ play' = [play EXCEPT !.count = play.count + 1]
    /\ UNCHANGED <<currentInning, isTopHalf, outs, isGameOver, winner,
                   startingAwayScore, pc, halfStartScore, lastHomer, lastCatch, atBat>>

NextWalk == WalkBranch

SpecWalk == InitWalk /\ [][NextWalk]_vars

\* C34: a walk puts the batter on first and moves only the forced runners,
\* each by one base: the runner on first always, the runner on second only
\* when first was occupied, the runner on third only when the bases were
\* loaded; one run scores exactly when the bases were loaded and none
\* otherwise, every player is still on base or has scored, and outs do not
\* change.
C34_WalkMovesForcedRunnersOnly ==
    [][LET b == basesOccupied
           a == basesOccupied'
           loaded == b.first # NoPlayer /\ b.second # NoPlayer /\ b.third # NoPlayer
           runs == (homeScore' + awayScore') - (homeScore + awayScore)
       IN  /\ a.first = Hitter
           /\ a.second = (IF b.first # NoPlayer THEN b.first ELSE b.second)
           /\ a.third = (IF b.first # NoPlayer /\ b.second # NoPlayer THEN b.second
                         ELSE b.third)
           /\ runs = (IF loaded THEN 1 ELSE 0)
           /\ 1 + OnBase(b) = OnBase(a) + runs
           /\ \A x, y \in {"first", "second", "third"} :
                 (x # y /\ a[x] # NoPlayer) => a[x] # a[y]
           /\ outs' = outs]_vars

\* a walk with the bases loaded in the bottom half: the runner from third is
\* home, the others moved up and the hitter is on first
C34_Witness ==
    /\ play.phase = "walks"
    /\ play.count = 1
    /\ ~isTopHalf
    /\ homeBatterIndex = 6
    /\ basesOccupied = [first |-> 5, second |-> 4, third |-> 3]
    /\ homeScore = 1
    /\ awayScore = 0


\* C35: runs are credited to the team at bat only: in a top half the home
\* score does not change, in a bottom half the away score does not change,
\* and no score ever decreases.
C35_RunsGoToBattingTeam ==
    [][/\ isTopHalf => homeScore' = homeScore
       /\ ~isTopHalf => awayScore' = awayScore
       /\ homeScore' >= homeScore
       /\ awayScore' >= awayScore]_vars

\* both teams have scored, the home team by a ball put in play in a bottom half
C35_Witness ==
    /\ ~isTopHalf
    /\ awayScore = 1
    /\ homeScore = 2
    /\ lastStep \notin {"start", "WALK", "STRIKEOUT", "NEXT_HALF"}


\* C36: when the pitch cap is reached the at-bat has exactly two strikes, so
\* the fallback returns STRIKEOUT and never WALK; every WALK has four balls.
C36_PitchCapMeansTwoStrikes ==
    /\ []((atBat.phase = "pitching" /\ atBat.pitches >= MAX_PITCHES) =>
             atBat.strikes = 2)
    /\ [][(atBat.phase = "pitching" /\ atBat.pitches >= MAX_PITCHES) =>
             (atBat'.phase = "returned" /\ atBat'.outcome = "STRIKEOUT")]_vars
    /\ []((atBat.phase = "returned" /\ atBat.outcome = "WALK") => atBat.balls = 4)

\* the cap is reached on a full count and the fallback has returned
C36_Witness ==
    /\ atBat.phase = "returned"
    /\ atBat.pitches = MAX_PITCHES
    /\ atBat.lastPitch = "FOUL"
    /\ atBat.balls = 3
    /\ atBat.strikes = 2
    /\ atBat.outcome = "STRIKEOUT"


\* ------------------------------------------------------------------------
\* One call of simulateFielding(ball, game): the hitter of slot 3 puts a ball
\* in play with any of the slots 0, 1, 2 on first, second, third.
\* ------------------------------------------------------------------------
InitFielding ==
    /\ GameInit
    /\ atBat = NoAtBat
    /\ \E bases \in AdvanceBases, ball \in FairBalls,
          battingTeam \in Teams, fieldingTeam \in Teams :
         play = [phase |-> "hit", bases |-> bases, batter |-> 3, ball |-> ball,
                 battingTeam |-> battingTeam, fieldingTeam |-> fieldingTeam,
                 outcome |-> FieldOutcome("NONE", 0, 0, EmptyBases, FALSE,
                                          Player(fieldingTeam, 0))]

Field ==
    /\ play.phase = "hit"
    /\ \E o \in simulateFielding(play.ball, play.bases, play.batter,
                                 play.battingTeam, play.fieldingTeam) :
         play' = [play EXCEPT !.phase = "fielded", !.outcome = o]
    /\ UNCHANGED <<gameVars, atBat>>

NextFielding == Field

SpecFielding == InitFielding /\ [][NextFielding]_vars

\* C37: SINGLE, DOUBLE or TRIPLE is reported only when the batter ends the
\* play on first, second or third, and OUT, DOUBLE_PLAY or TRIPLE_PLAY is
\* reported exactly when 1, 2 or 3 outs were recorded on the play.
C37_PlayTypeMatchesOutcome ==
    (play.phase = "fielded") =>
        LET o == play.outcome
        IN  /\ (o.playType = "SINGLE") => (o.updatedBases.first = play.batter)
            /\ (o.playType = "DOUBLE") => (o.updatedBases.second = play.batter)
            /\ (o.playType = "TRIPLE") => (o.updatedBases.third = play.batter)
            /\ (o.playType = "OUT") <=> (o.outsRecorded = 1)
            /\ (o.playType = "DOUBLE_PLAY") <=> (o.outsRecorded = 2)
            /\ (o.playType = "TRIPLE_PLAY") <=> (o.outsRecorded = 3)


\* ------------------------------------------------------------------------
\* estimateDropZone on batted balls of any velocity, launch and spray angle,
\* fair or foul, with the kinematics computed as the classifier computes
\* them.
\* ------------------------------------------------------------------------
DropVelos == {0, 20, 40, 60, 80, 100}
DropLaunches == {-10, 0, 9, 15, 35, 45, 70, 90}
DropAttacks == {-60, -30, -20, -12, -5, 0, 4, 12, 20, 30, 60}

\* Math.cos for a launch angle between -90 and 90 degrees, in 1/1000
CosMilli(deg) == Sqrt(1000000 - SinMilli(deg) * SinMilli(deg))

\* vHorizFtps = v * cos(launch) * M_TO_FT and xAirFt = vHorizFtps * t
BattedBall(velo, launch, attack, foul) ==
    LET v == Max(0, velo) * MPH_TO_MMPS
        vHoriz == (v * CosMilli(launch)) \div 1000
        t == calculateAirTime([velo |-> velo, launch |-> launch])
        xAirMM == (vHoriz * t) \div 1000
    IN  [velo |-> velo, launch |-> launch, attack |-> attack, homer |-> FALSE,
         foul |-> foul,
         xAirFt |-> Max(0, (xAirMM * 3281) \div 1000000),
         vHorizFtps |-> Max(0, (vHoriz * 3281) \div 1000000)]

InitDropZone ==
    /\ GameInit
    /\ atBat = NoAtBat
    /\ \E velo \in DropVelos, launch \in DropLaunches, attack \in DropAttacks,
          foul \in BOOLEAN :
         play = [phase |-> "struck", ball |-> BattedBall(velo, launch, attack, foul),
                 calls |-> 0, zone |-> "NONE", engineZone |-> "NONE",
                 previous |-> "NONE"]

\* a call of estimateDropZone(ball) of fielding.ts and of the copy in the
\* Game-mutating engine; the ball can be classified again
Classify ==
    /\ play.calls < 2
    /\ play' = [play EXCEPT !.phase = "classified", !.calls = play.calls + 1,
                            !.previous = play.zone,
                            !.zone = DropZone(play.ball, 5),
                            !.engineZone = estimateDropZone(play.ball)]
    /\ UNCHANGED <<gameVars, atBat>>

NextDropZone == Classify

SpecDropZone == InitDropZone /\ [][NextDropZone]_vars

\* C38: the classifier returns a position for every ball and the same one on
\* every call; a fair ball gets one of the nine defensive positions, a foul
\* ball gets Catcher, First Base, Third Base or Bench.
C38_BenchOnlyForFoulBalls ==
    (play.phase = "classified") =>
        /\ \A z \in {play.zone, play.engineZone} :
              /\ z \in PositionSet \cup {"Bench"}
              /\ ~play.ball.foul => z \in PositionSet
              /\ play.ball.foul => z \in {"Catcher", "First Base", "Third Base", "Bench"}
        /\ (play.calls = 2) => (play.previous = play.zone)

\* a foul pop near first base is given to the first baseman, twice
C38_Witness ==
    /\ play.phase = "classified"
    /\ play.calls = 2
    /\ play.ball.foul
    /\ play.ball.launch = 70
    /\ play.ball.attack = 60
    /\ play.zone = "First Base"
    /\ play.engineZone = "First Base"


\* ------------------------------------------------------------------------
\* The values compared with Math.random(), in units of 1/10000, for a pitch
\* to a batter and for the primary fielder of a ball in play.
\* ------------------------------------------------------------------------
\* randomNormal(), in units of 1/1000: values near the mean and in the tails
NormalDraws == {-6000, -1000, 0, 1000, 6000}

\* calculateSwing: p after the noise and the clamp
calculateSwing(contactScore, isStrike, z) ==
    LET p == IF isStrike THEN 6000 + 100 * contactScore
             \* 0.60 - 0.035 * 10 * (1 - (1 - contact / 10)^2)
             ELSE 2500 + 35 * (10 - contactScore) * (10 - contactScore)
    IN  Max(0, Min(10000, p + z \div 2))

\* calculateHit: contactChance = normal(skillDiff + 20, 30) on a strike and
\* normal(skillDiff + 1, 20) on a ball
contactChance(skill, difficulty, isStrike, z) ==
    LET skillDiff == skill - difficulty
    IN  IF isStrike THEN (skillDiff + 20) * 10000 + z * 300
        ELSE (skillDiff + 1) * 10000 + z * 200

InitBernoulli ==
    /\ GameInit
    /\ atBat = NoAtBat
    /\ \E contact \in {0, 5, 10}, pitchQuality \in {0, 5, 10}, isStrike \in BOOLEAN,
          z \in NormalDraws, ball \in FairBalls, fieldingTeam \in Teams :
         play = [phase |-> "ready", contact |-> contact, pitchQuality |-> pitchQuality,
                 isStrike |-> isStrike, z |-> z, ball |-> ball,
                 fielder |-> getFielderByPosition(fieldingTeam, estimateDropZone(ball)),
                 kind |-> "none", p |-> 0]

Compared(kind, p) ==
    /\ play' = [play EXCEPT !.phase = "compared", !.kind = kind, !.p = p]
    /\ UNCHANGED <<gameVars, atBat>>

\* return Math.random() < p
SwingDraw ==
    /\ play.phase = "ready"
    /\ Compared("swing", calculateSwing(play.contact, play.isStrike, play.z))

\* contact = contactChance > Math.random()
ContactDraw ==
    /\ play.phase = "ready"
    /\ Compared("contact", contactChance(play.contact, play.pitchQuality,
                                         play.isStrike, play.z))

\* ballCaught = Math.random() < catchProb
CatchDraw ==
    /\ play.phase = "ready"
    /\ classifyBall(play.ball) # "GROUND"
    /\ Compared("catch", calculateCatchProbability(play.ball, play.fielder,
                                                   classifyBall(play.ball)))

\* fieldingError = Math.random() > getFieldingSuccessRate(primary_fielder)
CleanFieldingDraw ==
    /\ play.phase = "ready"
    /\ isInfielder(play.fielder)
    /\ classifyBall(play.ball) \in {"LINE", "GROUND"}
    /\ Compared("clean-fielding", 100 * getFieldingSuccessRate(play.fielder))

\* Math.random() < pOut with pOut = throwOutProbability(...)
ThrowOutDraw ==
    /\ play.phase = "ready"
    /\ \E target \in 1..4, runnerSpeed \in {0, 5, 10} :
        Compared("throw-out",
                 throwOutProbability(
                     estimateThrowDistanceCategory(play.fielder.activePosition, target),
                     play.fielder.fielding, runnerSpeed, classifyBall(play.ball)))

NextBernoulli ==
    \/ SwingDraw
    \/ ContactDraw
    \/ CatchDraw
    \/ CleanFieldingDraw
    \/ ThrowOutDraw

SpecBernoulli == InitBernoulli /\ [][NextBernoulli]_vars

\* C39: every value compared with a uniform draw lies between 0 and 1.
C39_BernoulliParametersInUnitInterval ==
    (play.phase = "compared") => (0 <= play.p /\ play.p <= 10000)


====
